---------------------------- MODULE Spec2Model ----------------------------
(***************************************************************************)
(* Model of isopipe's BED interval engine (assets/orf/bedutils/bed.py,     *)
(* class BedRow) and of the CIGAR editor (assets/correct_minimap.py,       *)
(* classes CigarFeature and Cigar).                                        *)
(*                                                                         *)
(* Python lists are 0-based; TLA+ sequences are 1-based.  Block indices    *)
(* keep the Python numbering (0-based, -1 for "not found"), and every list *)
(* access goes through PyGet / PySliceFrom / PySliceTo, which follow the   *)
(* Python rules for negative indices, clamped slices and IndexError.       *)
(***************************************************************************)
EXTENDS Integers, Sequences, FiniteSets, TLC

\* ------------------------------------------------------------------ bounds
MaxBlocks == 2
MaxBlockLen == 2
MaxGap == 2
MaxOps == 1
MaxTokens == 2
MaxDigits == 2

VARIABLES
    \* BedRow fields (bed.py:51-75)
    strand, start, stop, thick_start, thick_stop,
    block_count, block_lens, block_starts,
    \* the call in progress / just finished on the BedRow
    call,       \* [op, arg, allow_invert] of the last method call
    pre,        \* the BedRow fields as they were when that call started
    exc,        \* exception the call raised, "none" if it returned
    ret,        \* value the call returned
    nops,       \* number of mutating calls made so far
    row,        \* the columns of the line BedRow(row) is constructed from
    bed_x,      \* BedRow.bed_x, the number of columns (bed.py:45)
    \* Cigar object (correct_minimap.py:707-742)
    value_string, features, final_str, cigar_pc,
    cigar_call, \* [op, index, size] of the last call on a feature of the Cigar
    cigar_pre,  \* the features as they were when that call started
    \* export_df_orfs (common.py:101-135) and trim_translationai_bed
    \* (translationai_prep.py:65-122)
    batch_fn,        \* which of the two functions runs
    heap,            \* the BedRow objects, by object id
    transcript_dict, \* transcript_dict / ref_rows: id -> object id
    base0,           \* the record of the lookup table as it was parsed
    n_entries,       \* number of candidates of the batch
    idx,             \* number of candidates the loop has taken
    entry,           \* the candidate of the last iteration and what it raised
    source_row,      \* source_row / row: object id of the record being trimmed
    out_row,         \* <<row>> the last iteration wrote, <<>> if it wrote none
    dropped,         \* the counter `dropped`
    written,         \* the counter `x` / len(final_rows): rows written
    batch_pc,        \* "idle", "loop", "returned", or the exception that ended it
    \* main of correct_minimap.py (239-683), its inputs ...
    as_script,       \* TRUE: main is called at line 689, before the class
                     \* statements at 692 and 707 have run; FALSE: it is called
                     \* on the imported module
    args,            \* [wiggle, clip_cutoff]
    in_sam,          \* the alignment rows of args.minimap, in file order
    bed8,            \* the rows of minimap.sam.bed8, one per alignment row
    toga,            \* the exon rows of query_annotation.bed6, in file order
    exon_seqs,       \* exon id -> sequence twoBitToFa delivers for it
    \* ... and what it computes from them
    indexed_exons, internal_exons,
    clip_dict, stop_pos_dict,
    main_strand,     \* the variable `strand` of main (assigned at line 301)
    matching_tuples, hits,
    exon_precursor,  \* the rows written to exon_precursor.bed, in order
    exons_seqs_dict, hits_list, hits_filtered,
    dict_sam_exons, map_sam_to_exon, indexed_exon_coords, sam_indexed,
    sam_stops_indexed,
    tracked_cigars,
    out_file,        \* the rows written to corrected.sam, in order
    cand_pos,        \* <<index into dict_sam_exons, exon_index>> of the last candidate
    trail,           \* per candidate taken: what the iteration did
    main_pc          \* the step main is at, or the exception that ended it

vars == <<strand, start, stop, thick_start, thick_stop, block_count,
          block_lens, block_starts, call, pre, exc, ret, nops, row, bed_x,
          value_string, features, final_str, cigar_pc, cigar_call, cigar_pre,
          batch_fn, heap, transcript_dict, base0, n_entries, idx, entry,
          source_row, out_row, dropped, written, batch_pc,
          as_script, args, in_sam, bed8, toga, exon_seqs, indexed_exons,
          internal_exons,
          clip_dict, stop_pos_dict, main_strand, matching_tuples, hits,
          exon_precursor, exons_seqs_dict, hits_list, hits_filtered,
          dict_sam_exons,
          map_sam_to_exon, indexed_exon_coords, sam_indexed, sam_stops_indexed,
          tracked_cigars, out_file, cand_pos, trail, main_pc>>

bedVars == <<strand, start, stop, thick_start, thick_stop, block_count,
             block_lens, block_starts, call, pre, exc, ret, nops, row, bed_x>>

cigarVars == <<value_string, features, final_str, cigar_pc, cigar_call,
               cigar_pre>>

batchVars == <<batch_fn, heap, transcript_dict, base0, n_entries, idx, entry,
               source_row, out_row, dropped, written, batch_pc>>

\* main of correct_minimap.py: its inputs, and the results of its steps
inputVars == <<as_script, args, in_sam, bed8, toga, exon_seqs>>

exonVars == <<indexed_exons, internal_exons>>

parseVars == <<clip_dict, stop_pos_dict>>

matchVars == <<main_strand, matching_tuples, hits>>

hitVars == <<exon_precursor, exons_seqs_dict, hits_list, hits_filtered>>

loadVars == <<dict_sam_exons, map_sam_to_exon, indexed_exon_coords, sam_indexed,
              sam_stops_indexed>>

outVars == <<tracked_cigars, out_file, cand_pos, trail>>

mainVars == <<inputVars, exonVars, parseVars, matchVars, hitVars, loadVars,
              outVars, main_pc>>

\* what a call on a BedRow leaves alone, and what a call on a Cigar does
nonBedVars == <<cigarVars, batchVars, mainVars>>

nonCigarVars == <<bedVars, batchVars, mainVars>>

\* Python's None as a method result; NoCut is the None that
\* genomic_position_to_block_position falls through to (bed.py:218-227)
None == "None"
NoCut == <<>>

\* the line of an object that is already constructed
NoRow == <<>>

\* --------------------------------------------------- Python list semantics
RECURSIVE SumSeq(_)
SumSeq(s) == IF s = <<>> THEN 0 ELSE Head(s) + SumSeq(Tail(s))

PyIndexOK(s, i) == IF i >= 0 THEN i < Len(s) ELSE -i <= Len(s)

PyGet(s, i) == IF i >= 0 THEN s[i + 1] ELSE s[Len(s) + i + 1]

PySet(s, i, v) ==
    LET k == IF i >= 0 THEN i + 1 ELSE Len(s) + i + 1
    IN  [s EXCEPT ![k] = v]

PyClamp(s, i) ==
    IF i < 0 THEN (IF Len(s) + i < 0 THEN 0 ELSE Len(s) + i)
    ELSE (IF i > Len(s) THEN Len(s) ELSE i)

\* s[i:]
PySliceFrom(s, i) == SubSeq(s, PyClamp(s, i) + 1, Len(s))

\* s[:j]
PySliceTo(s, j) == SubSeq(s, 1, PyClamp(s, j))

\* ------------------------------------------------------------ BedRow state
Self ==
    [strand |-> strand, start |-> start, stop |-> stop,
     thick_start |-> thick_start, thick_stop |-> thick_stop,
     block_count |-> block_count, block_lens |-> block_lens,
     block_starts |-> block_starts]

get_exon_total_length(self) == SumSeq(self.block_lens)

get_total_block_length(self) == SumSeq(self.block_lens)

RECURSIVE BpPosBlockLoop(_, _, _, _)
BpPosBlockLoop(lens, x, curr_pos, pos) ==
    IF x >= Len(lens) THEN <<-1, -1>>
    ELSE LET block == lens[x + 1]
         IN  IF curr_pos + block < pos
             THEN BpPosBlockLoop(lens, x + 1, curr_pos + block, pos)
             ELSE <<x, pos - curr_pos>>

get_bp_pos_block(self, pos) == BpPosBlockLoop(self.block_lens, 0, 0, pos)

RECURSIVE GenomicBlockLoop(_, _, _)
GenomicBlockLoop(self, x, genomic_pos) ==
    IF x >= Len(self.block_lens) THEN [exc |-> "none", val |-> NoCut]
    ELSE LET block == self.block_lens[x + 1]
         IN  IF ~PyIndexOK(self.block_starts, x)
             THEN [exc |-> "IndexError", val |-> NoCut]
             ELSE IF self.start + self.block_starts[x + 1] + block < genomic_pos
             THEN GenomicBlockLoop(self, x + 1, genomic_pos)
             ELSE LET delta == genomic_pos - self.start - self.block_starts[x + 1]
                  IN  IF delta < 0
                      THEN [exc |-> "OutOfExonError", val |-> NoCut]
                      ELSE [exc |-> "none", val |-> <<x, delta>>]

\* the range check rejecting the stop coordinate itself (>= for >)
genomic_position_to_block_position_stop_excluded(self, genomic_pos) ==
    IF genomic_pos < self.start \/ genomic_pos >= self.stop
    THEN [exc |-> "OutOfExonError", val |-> NoCut]
    ELSE GenomicBlockLoop(self, 0, genomic_pos)

genomic_position_to_block_position(self, genomic_pos) ==
    IF genomic_pos < self.start \/ genomic_pos > self.stop
    THEN [exc |-> "OutOfExonError", val |-> NoCut]
    ELSE GenomicBlockLoop(self, 0, genomic_pos)

block_position_to_genomic_position(self, bp_pos) ==
    LET br == get_bp_pos_block(self, bp_pos)
    IN  IF ~PyIndexOK(self.block_starts, br[1])
        THEN [exc |-> "IndexError", val |-> None]
        ELSE [exc |-> "none",
              val |-> self.start + PyGet(self.block_starts, br[1]) + br[2]]

\* walked = sum(self.block_lens[: cut[0]]) + cut[1]
Walked(self, cut) == SumSeq(PySliceTo(self.block_lens, cut[1])) + cut[2]

\* the conversion without the inversion on the (-) strand
genomic_position_to_sequence_position_no_invert(self, genomic_position) ==
    LET cut == genomic_position_to_block_position(self, genomic_position)
    IN  IF cut.exc # "none" THEN [exc |-> cut.exc, val |-> None]
        ELSE IF cut.val = NoCut THEN [exc |-> "TypeError", val |-> None]
        ELSE [exc |-> "none", val |-> Walked(self, cut.val)]

genomic_position_to_sequence_position(self, genomic_position) ==
    LET cut == genomic_position_to_block_position(self, genomic_position)
    IN  IF cut.exc # "none" THEN [exc |-> cut.exc, val |-> None]
        ELSE IF cut.val = NoCut THEN [exc |-> "TypeError", val |-> None]
        ELSE LET walked == Walked(self, cut.val)
             IN  IF self.strand = "-"
                 THEN [exc |-> "none",
                       val |-> get_total_block_length(self) - walked]
                 ELSE [exc |-> "none", val |-> walked]

sequence_position_to_genomic_position(self, sequence_position) ==
    LET block_pos == IF self.strand = "+"
                     THEN sequence_position
                     ELSE get_total_block_length(self) - sequence_position
    IN  block_position_to_genomic_position(self, block_pos)

\* ---------------------------------------------------------------- trimming
Raise(self, e) == [self |-> self, exc |-> e]

Return(self) == [self |-> self, exc |-> "none"]

smooth_zero_leading_block(self) ==
    LET lens1   == PySliceFrom(self.block_lens, 1)
        starts1 == PySliceFrom(self.block_starts, 1)
        s1      == [self EXCEPT !.block_lens = lens1, !.block_starts = starts1]
    IN  IF ~PyIndexOK(starts1, 0) THEN Raise(s1, "IndexError")
        ELSE LET leading_block == PyGet(starts1, 0)
                 starts2 == [x \in DOMAIN starts1 |-> starts1[x] - leading_block]
                 start1  == self.start + leading_block
             IN  Return([s1 EXCEPT
                            !.block_starts = starts2,
                            !.start = start1,
                            !.thick_start = IF self.thick_start < start1
                                            THEN start1
                                            ELSE self.thick_start])

\* bed.py:272-289, the part of trim_bp_downstream after the guards
TrimDownstreamBody(self, bp) ==
    LET br          == get_bp_pos_block(self, get_exon_total_length(self) - bp)
        block_index == br[1]
        remainder   == br[2]
        starts1     == PySliceTo(self.block_starts, block_index + 1)
        lens1       == PySliceTo(self.block_lens, block_index + 1)
        s1          == [self EXCEPT !.block_starts = starts1,
                                    !.block_lens = lens1,
                                    !.block_count = block_index + 1]
    IN  IF ~PyIndexOK(lens1, -1) THEN Raise(s1, "IndexError")
        ELSE LET lens2 == IF remainder # PyGet(lens1, -1)
                          THEN PySet(lens1, -1, remainder)
                          ELSE lens1
                 s2    == [s1 EXCEPT !.block_lens = lens2]
             IN  IF ~PyIndexOK(starts1, -1) THEN Raise(s2, "IndexError")
                 ELSE LET stop1 == self.start + PyGet(starts1, -1)
                                              + PyGet(lens2, -1)
                      IN  Return([s2 EXCEPT
                                     !.stop = stop1,
                                     !.thick_stop = IF self.thick_stop > stop1
                                                    THEN stop1
                                                    ELSE self.thick_stop])

\* bed.py:304-325, the part of trim_bp_upstream after the guards
TrimUpstreamBody(self, bp) ==
    LET br          == get_bp_pos_block(self, bp)
        block_index == br[1]
        remainder   == br[2]
        starts1     == PySliceFrom(self.block_starts, block_index)
        lens1       == PySliceFrom(self.block_lens, block_index)
        s1          == [self EXCEPT !.block_starts = starts1,
                                    !.block_lens = lens1,
                                    !.block_count = self.block_count - block_index]
    IN  IF ~PyIndexOK(lens1, 0) THEN Raise(s1, "IndexError")
        ELSE LET lens2 == PySet(lens1, 0, PyGet(lens1, 0) - remainder)
                 s2    == [s1 EXCEPT !.block_lens = lens2]
             IN  IF ~PyIndexOK(starts1, 0) THEN Raise(s2, "IndexError")
                 ELSE LET starts2 == PySet(starts1, 0, PyGet(starts1, 0) + remainder)
                          shift   == PyGet(starts2, 0)
                          start1  == self.start + shift
                          starts3 == [x \in DOMAIN starts2 |-> starts2[x] - shift]
                          s3      == [s2 EXCEPT
                                         !.start = start1,
                                         !.thick_start = IF self.thick_start < start1
                                                         THEN start1
                                                         ELSE self.thick_start,
                                         !.block_starts = starts3]
                      IN  IF PyGet(lens2, 0) = 0
                          THEN smooth_zero_leading_block(s3)
                          ELSE Return(s3)

RECURSIVE trim_bp_downstream(_, _, _)
RECURSIVE trim_bp_upstream(_, _, _)

\* trim_bp_upstream without the bp <= 0 early return
trim_bp_upstream_noguard(self, bp, allow_invert) ==
    IF self.strand = "-" /\ allow_invert
    THEN trim_bp_downstream(self, bp, FALSE)
    ELSE TrimUpstreamBody(self, bp)

trim_bp_upstream(self, bp, allow_invert) ==
    IF bp <= 0 THEN Return(self)
    ELSE IF self.strand = "-" /\ allow_invert
    THEN trim_bp_downstream(self, bp, FALSE)
    ELSE TrimUpstreamBody(self, bp)

\* trim_bp_downstream without the delegation on the (-) strand
trim_bp_downstream_no_invert(self, bp, allow_invert) ==
    IF bp <= 0 THEN Return(self)
    ELSE TrimDownstreamBody(self, bp)

trim_bp_downstream(self, bp, allow_invert) ==
    IF bp <= 0 THEN Return(self)
    ELSE IF self.strand = "-" /\ allow_invert
    THEN trim_bp_upstream(self, bp, FALSE)
    ELSE TrimDownstreamBody(self, bp)

trim_to_genomic_position_downstream(self, genomic_position) ==
    LET cut == genomic_position_to_block_position(self, genomic_position)
    IN  IF cut.exc # "none" THEN Raise(self, cut.exc)
        ELSE IF cut.val = NoCut THEN Raise(self, "TypeError")
        ELSE LET walked == Walked(self, cut.val)
             IN  IF self.strand = "+"
                 THEN trim_bp_downstream(self, get_exon_total_length(self) - walked, TRUE)
                 ELSE trim_bp_downstream(self, walked, TRUE)

\* the upstream trim with the walked offset taken as it is on either strand
trim_to_genomic_position_upstream_unflipped(self, genomic_position) ==
    LET cut == genomic_position_to_block_position(self, genomic_position)
    IN  IF cut.exc # "none" THEN Raise(self, cut.exc)
        ELSE IF cut.val = NoCut THEN Raise(self, "TypeError")
        ELSE LET walked == Walked(self, cut.val)
             IN  IF self.strand = "-"
                 THEN trim_bp_upstream(self, walked, TRUE)
                 ELSE IF self.strand = "+"
                 THEN trim_bp_upstream(self, walked, TRUE)
                 ELSE Return(self)

trim_to_genomic_position_upstream(self, genomic_position) ==
    LET cut == genomic_position_to_block_position(self, genomic_position)
    IN  IF cut.exc # "none" THEN Raise(self, cut.exc)
        ELSE IF cut.val = NoCut THEN Raise(self, "TypeError")
        ELSE LET walked == Walked(self, cut.val)
             IN  IF self.strand = "-"
                 THEN trim_bp_upstream(self, get_exon_total_length(self) - walked, TRUE)
                 ELSE IF self.strand = "+"
                 THEN trim_bp_upstream(self, walked, TRUE)
                 ELSE Return(self)

\* ------------------------------------------------- BedRow: initial records
\* A BED12 row as BedRow.__init__ parses it: block_count blocks of positive
\* length, in genomic order, first offset 0, stop at the end of the last block.
RECURSIVE OffsetsOf(_, _)
OffsetsOf(lens, gaps) ==
    IF Len(lens) = 1 THEN <<0>>
    ELSE LET front == OffsetsOf(SubSeq(lens, 1, Len(lens) - 1),
                                SubSeq(gaps, 1, Len(gaps) - 1))
             n     == Len(lens)
         IN  Append(front, front[n - 1] + lens[n - 1] + gaps[n - 1])

ValidRecord(self) ==
    /\ Len(self.block_lens) >= 1
    /\ Len(self.block_starts) = Len(self.block_lens)
    /\ \A i \in DOMAIN self.block_lens : self.block_lens[i] >= 1
    /\ self.block_starts[1] = 0
    /\ \A i \in 1..(Len(self.block_lens) - 1) :
          self.block_starts[i] + self.block_lens[i] <= self.block_starts[i + 1]
    /\ self.stop = self.start + self.block_starts[Len(self.block_starts)]
                              + self.block_lens[Len(self.block_lens)]

NoCigarCall == [op |-> "none", index |-> 0, size |-> 0]

NoEntry == [id |-> "none", exc |-> "none"]

\* main before its steps ran: nothing computed yet
ExonBlank == indexed_exons = <<>> /\ internal_exons = <<>>

ParseBlank == clip_dict = <<>> /\ stop_pos_dict = <<>>

MatchBlank == main_strand = "unbound" /\ matching_tuples = <<>> /\ hits = <<>>

HitBlank ==
    /\ exon_precursor = <<>>
    /\ exons_seqs_dict = <<>> /\ hits_list = <<>> /\ hits_filtered = <<>>

LoadBlank ==
    /\ dict_sam_exons = <<>>
    /\ map_sam_to_exon = <<>>
    /\ indexed_exon_coords = <<>>
    /\ sam_indexed = <<>>
    /\ sam_stops_indexed = <<>>

OutBlank ==
    /\ tracked_cigars = <<>>
    /\ out_file = <<>>
    /\ cand_pos = <<1, 0>>
    /\ trail = <<>>

InputBlank ==
    /\ as_script = FALSE
    /\ args = [wiggle |-> 0, clip_cutoff |-> 0]
    /\ in_sam = <<>>
    /\ bed8 = <<>>
    /\ toga = <<>>
    /\ exon_seqs = <<>>

MainIdle ==
    /\ InputBlank /\ ExonBlank /\ ParseBlank /\ MatchBlank /\ HitBlank
    /\ LoadBlank /\ OutBlank
    /\ main_pc = "idle"

BatchIdle ==
    /\ batch_fn = "none"
    /\ heap = <<>>
    /\ transcript_dict = <<>>
    /\ base0 = None
    /\ n_entries = 0
    /\ idx = 0
    /\ entry = NoEntry
    /\ source_row = None
    /\ out_row = <<>>
    /\ dropped = 0
    /\ written = 0
    /\ batch_pc = "idle"

CigarIdle ==
    /\ value_string = <<>>
    /\ features = <<>>
    /\ final_str = <<>>
    /\ cigar_pc = "idle"
    /\ cigar_call = NoCigarCall
    /\ cigar_pre = <<>>

InitBed ==
    /\ strand \in {"+", "-"}
    /\ start = 0
    /\ \E n \in 1..MaxBlocks :
         \E lens \in [1..n -> 1..MaxBlockLen], gaps \in [1..(n - 1) -> 0..MaxGap] :
            /\ block_lens = lens
            /\ block_starts = OffsetsOf(lens, gaps)
            /\ block_count = n
    /\ stop = start + block_starts[Len(block_starts)] + block_lens[Len(block_lens)]
    \* the thick region is the whole record, or empty at either end of it
    /\ thick_start \in {start, stop}
    /\ thick_stop \in {thick_start, stop}
    /\ call = [op |-> "__init__", arg |-> 0, allow_invert |-> TRUE]
    /\ pre = Self
    /\ exc = "none"
    /\ ret = None
    /\ nops = 0
    /\ row = NoRow
    /\ bed_x = 12
    /\ CigarIdle
    /\ BatchIdle
    /\ MainIdle

\* ------------------------------------------------------- BedRow: the calls
\* base-pair arguments: negative, zero, inside the blocks, exactly the total
\* block length, and one beyond it
BpRange == -1..(get_exon_total_length(Self) + 1)

PosRange == (start - 1)..(stop + 1)

\* the object after a mutating method ran: its fields, the exception, no value
Mutated(op, arg, allow_invert, r) ==
    /\ strand' = r.self.strand
    /\ start' = r.self.start
    /\ stop' = r.self.stop
    /\ thick_start' = r.self.thick_start
    /\ thick_stop' = r.self.thick_stop
    /\ block_count' = r.self.block_count
    /\ block_lens' = r.self.block_lens
    /\ block_starts' = r.self.block_starts
    /\ call' = [op |-> op, arg |-> arg, allow_invert |-> allow_invert]
    /\ pre' = Self
    /\ exc' = r.exc
    /\ ret' = None
    /\ nops' = nops + 1
    /\ UNCHANGED <<row, bed_x>>
    /\ UNCHANGED nonBedVars

\* the object after a conversion method ran: fields untouched, value or exception
Queried(op, arg, r) ==
    /\ call' = [op |-> op, arg |-> arg, allow_invert |-> TRUE]
    /\ pre' = Self
    /\ exc' = r.exc
    /\ ret' = r.val
    /\ UNCHANGED <<strand, start, stop, thick_start, thick_stop, block_count,
                   block_lens, block_starts, nops, row, bed_x>>
    /\ UNCHANGED nonBedVars

MutatingOps == {"__init__", "trim_bp_upstream", "trim_bp_downstream",
                "trim_to_genomic_position_upstream",
                "trim_to_genomic_position_downstream"}

\* A call is made on an object whose last call returned.  The conversion
\* methods leave every field as it was, so a call made after one of them is
\* the same call made before it: the model makes each call on the object as
\* its constructor or its last trim left it.
BedLive == exc = "none" /\ cigar_pc = "idle" /\ call.op \in MutatingOps

\* The conversion methods read start, stop, strand and the two block lists
\* only; the model calls them on the record as parsed, and InitBed holds every
\* valid combination of those fields within the bounds.
Parsed == BedLive /\ nops = 0

TrimBpUpstream ==
    /\ BedLive /\ nops < MaxOps
    /\ \E bp \in BpRange, allow_invert \in BOOLEAN :
          Mutated("trim_bp_upstream", bp, allow_invert,
                  trim_bp_upstream(Self, bp, allow_invert))

TrimBpDownstream ==
    /\ BedLive /\ nops < MaxOps
    /\ \E bp \in BpRange, allow_invert \in BOOLEAN :
          Mutated("trim_bp_downstream", bp, allow_invert,
                  trim_bp_downstream(Self, bp, allow_invert))

TrimToGenomicPositionUpstream ==
    /\ BedLive /\ nops < MaxOps
    /\ \E pos \in PosRange :
          Mutated("trim_to_genomic_position_upstream", pos, TRUE,
                  trim_to_genomic_position_upstream(Self, pos))

TrimToGenomicPositionDownstream ==
    /\ BedLive /\ nops < MaxOps
    /\ \E pos \in PosRange :
          Mutated("trim_to_genomic_position_downstream", pos, TRUE,
                  trim_to_genomic_position_downstream(Self, pos))

GenomicPositionToBlockPosition ==
    /\ Parsed
    /\ \E pos \in PosRange :
          Queried("genomic_position_to_block_position", pos,
                  genomic_position_to_block_position(Self, pos))

BlockPositionToGenomicPosition ==
    /\ Parsed
    /\ \E bp \in BpRange :
          Queried("block_position_to_genomic_position", bp,
                  block_position_to_genomic_position(Self, bp))

GenomicPositionToSequencePosition ==
    /\ Parsed
    /\ \E pos \in PosRange :
          Queried("genomic_position_to_sequence_position", pos,
                  genomic_position_to_sequence_position(Self, pos))

SequencePositionToGenomicPosition ==
    /\ Parsed
    /\ \E seq_pos \in BpRange :
          Queried("sequence_position_to_genomic_position", seq_pos,
                  sequence_position_to_genomic_position(Self, seq_pos))

NextBed ==
    \/ TrimBpUpstream
    \/ TrimBpDownstream
    \/ TrimToGenomicPositionUpstream
    \/ TrimToGenomicPositionDownstream
    \/ GenomicPositionToBlockPosition
    \/ BlockPositionToGenomicPosition
    \/ GenomicPositionToSequencePosition
    \/ SequencePositionToGenomicPosition

SpecBed == InitBed /\ [][NextBed]_vars

\* ------------------------------------------------------- BedRow: properties
TrimBpOps == {"trim_bp_upstream", "trim_bp_downstream"}

TrimOps == TrimBpOps \cup {"trim_to_genomic_position_upstream",
                           "trim_to_genomic_position_downstream"}

ThickInside(self) ==
    /\ self.start <= self.thick_start
    /\ self.thick_start <= self.thick_stop
    /\ self.thick_stop <= self.stop

\* genomic end coordinate of the i-th block (i counted from 1)
BlockEnd(self, i) == self.start + self.block_starts[i] + self.block_lens[i]

HasIntron(self) ==
    \E i \in 1..(Len(self.block_lens) - 1) :
        self.block_starts[i] + self.block_lens[i] < self.block_starts[i + 1]

\* C1: on a valid record, when genomic_position_to_block_position(pos) returns
\* (i, r) for a pos in [start, stop], block_position_to_genomic_position of the
\* walked offset sum(block_lens[:i]) + r is pos again, also when pos is the
\* start coordinate of a non-first block.
C1_RoundTrip ==
    ( /\ call.op = "genomic_position_to_block_position"
      /\ ValidRecord(Self)
      /\ call.arg >= start /\ call.arg <= stop
      /\ exc = "none"
      /\ ret # NoCut )
    => LET back == block_position_to_genomic_position(Self, Walked(Self, ret))
       IN  back.exc = "none" /\ back.val = call.arg

\* C2: on a valid record of either strand, for 0 <= seq_pos < total block
\* length, sequence_position_to_genomic_position(seq_pos) returns and
\* genomic_position_to_sequence_position of its result returns seq_pos.
C2_SequenceSymmetry ==
    ( /\ call.op = "sequence_position_to_genomic_position"
      /\ ValidRecord(Self)
      /\ call.arg >= 0 /\ call.arg < get_total_block_length(Self) )
    => /\ exc = "none"
       /\ LET back == genomic_position_to_sequence_position(Self, ret)
          IN  back.exc = "none" /\ back.val = call.arg

\* C2's case: a (-) strand record with an intron, asked for the sequence
\* position that lies exactly on the edge between its two blocks
C2_Witness ==
    /\ call.op = "sequence_position_to_genomic_position"
    /\ ValidRecord(Self) /\ HasIntron(Self)
    /\ strand = "-"
    /\ call.arg = block_lens[Len(block_lens)]
    /\ call.arg < get_total_block_length(Self)
    /\ exc = "none"

\* C3: after a trim_bp_upstream / trim_bp_downstream call that returns, on a
\* record that was valid, start < stop and the block structure is valid: every
\* block length >= 1, first offset 0, blocks ordered and non-overlapping, stop
\* at the end of the last block.
C3_TrimKeepsBlockStructure ==
    (call.op \in TrimBpOps /\ exc = "none" /\ ValidRecord(pre))
    => (start < stop /\ ValidRecord(Self))

\* C4: a trim that returns, on a record with
\* start <= thick_start <= thick_stop <= stop, leaves that ordering in place,
\* also when it removes the whole thick region.  Stated for the trims that
\* leave a valid block structure behind, so that a violation is one of the
\* thick bounds alone.
C4_ThickBounds ==
    ( /\ call.op \in TrimOps
      /\ exc = "none"
      /\ ValidRecord(pre) /\ ThickInside(pre)
      /\ ValidRecord(Self) )
    => ThickInside(Self)

\* C5: trim_bp_upstream(bp) and trim_bp_downstream(bp) with bp above the total
\* block length of a valid record raise, and no trim returns with zero blocks.
C5_OverTrimRejected ==
    /\ ( /\ call.op \in TrimBpOps
         /\ ValidRecord(pre)
         /\ call.arg > get_exon_total_length(pre) )
       => exc # "none"
    /\ (call.op \in TrimOps /\ exc = "none") => Len(block_lens) >= 1

\* C6: a trim that raises leaves start, stop, thick_start, thick_stop,
\* block_count, block_lens and block_starts as they were before the call.
C6_TrimAtomic ==
    (call.op \in TrimOps /\ exc # "none") => Self = pre

\* C7: trim_bp_upstream(bp) and trim_bp_downstream(bp) with bp <= 0 return
\* without raising and change no field, on either strand and for either
\* allow_invert.
C7_TrimNoop ==
    (call.op \in TrimBpOps /\ call.arg <= 0)
    => (exc = "none" /\ Self = pre)

\* C7's case: a (-) strand record trimmed by 0 with inversion allowed
C7_Witness ==
    /\ call.op = "trim_bp_downstream"
    /\ call.arg = 0
    /\ call.allow_invert
    /\ strand = "-"
    /\ Len(block_lens) >= 2
    /\ exc = "none"

\* C8: on a valid (+) record with at least 2 blocks, trim_bp_upstream by the
\* first block's length removes exactly that block (new offsets start at 0,
\* start moves to the old second block, stop stays); and after any
\* trim_bp_upstream that returns, the first block has length >= 1 and offset 0.
C8_FirstBlockRemoved ==
    ( /\ call.op = "trim_bp_upstream"
      /\ pre.strand = "+"
      /\ ValidRecord(pre)
      /\ Len(pre.block_lens) >= 2
      /\ call.arg = pre.block_lens[1] )
    => /\ exc = "none"
       /\ block_lens = Tail(pre.block_lens)
       /\ Len(block_starts) = Len(block_lens)
       /\ block_starts[1] = 0
       /\ start = pre.start + pre.block_starts[2]
       /\ \A i \in DOMAIN block_starts :
             block_starts[i] = pre.block_starts[i + 1] - pre.block_starts[2]
       /\ stop = pre.stop

C8_LeadingBlockAfterReturn ==
    (call.op = "trim_bp_upstream" /\ ValidRecord(pre) /\ exc = "none")
    => /\ Len(block_lens) >= 1 /\ Len(block_starts) >= 1
       /\ block_lens[1] >= 1
       /\ block_starts[1] = 0

C8_ZeroBlockSmoothing == C8_FirstBlockRemoved /\ C8_LeadingBlockAfterReturn

\* C9: on a valid record genomic_position_to_block_position(pos) raises
\* OutOfExonError exactly when pos < start, pos > stop or pos lies strictly
\* between the end of a block and the start of the next; otherwise it returns
\* (i, pos - start - block_starts[i]) for the first block i whose end is >= pos,
\* with a remainder in [0, block_lens[i]], never None.
C9_BlockPosition ==
    (call.op = "genomic_position_to_block_position" /\ ValidRecord(Self))
    => LET pos      == call.arg
           n        == Len(block_lens)
           inIntron == \E i \in 1..(n - 1) :
                          /\ BlockEnd(Self, i) < pos
                          /\ pos < start + block_starts[i + 1]
           outside  == pos < start \/ pos > stop
       IN  /\ exc \in {"none", "OutOfExonError"}
           /\ (exc = "OutOfExonError") <=> (outside \/ inIntron)
           /\ exc = "none" =>
                /\ ret # NoCut
                /\ \E i \in 1..n :
                      /\ BlockEnd(Self, i) >= pos
                      /\ \A j \in 1..(i - 1) : BlockEnd(Self, j) < pos
                      /\ ret = <<i - 1, pos - start - block_starts[i]>>
                      /\ ret[2] >= 0 /\ ret[2] <= block_lens[i]

\* C9's case: a position inside an intron is rejected
C9_Witness ==
    /\ call.op = "genomic_position_to_block_position"
    /\ ValidRecord(Self)
    /\ call.arg > start /\ call.arg < stop
    /\ exc = "OutOfExonError"

\* the genomic coordinates of the exonic bases of a record
ExonicBases(self) ==
    UNION {{self.start + self.block_starts[i] + k :
                k \in 0..(self.block_lens[i] - 1)} : i \in DOMAIN self.block_lens}

\* the walked offset of a position the conversion accepts, -1 otherwise
WalkedAt(self, pos) ==
    LET cut == genomic_position_to_block_position(self, pos)
    IN  IF cut.exc = "none" /\ cut.val # NoCut THEN Walked(self, cut.val) ELSE -1

\* the n lowest and the n highest coordinates of a set
FirstBases(bases, n) == {b \in bases : Cardinality({c \in bases : c < b}) < n}

LastBases(bases, n) == {b \in bases : Cardinality({c \in bases : c > b}) < n}

\* C26: on a valid '+' record of total block length T and for 0 < bp < T,
\* trim_bp_downstream(bp) leaves T - bp bases, exactly the first T - bp exonic
\* bases, with start, thick_start and the offsets of the blocks kept unchanged;
\* trim_bp_upstream(bp) leaves exactly the last T - bp exonic bases with stop
\* and thick_stop unchanged.  On a '-' record with allow_invert,
\* trim_bp_downstream(bp) gives the record the body of trim_bp_upstream gives
\* without any delegation, and trim_bp_upstream(bp) the record the body of
\* trim_bp_downstream gives.
C26_ExactTrim ==
    ( /\ call.op \in TrimBpOps
      /\ ValidRecord(pre)
      /\ call.arg > 0 /\ call.arg < get_total_block_length(pre) )
    => LET bp   == call.arg
           left == get_total_block_length(pre) - bp
           down == call.op = "trim_bp_downstream"
       IN  /\ (pre.strand = "+" /\ down)
              => /\ exc = "none"
                 /\ Len(block_starts) = Len(block_lens)
                 /\ get_total_block_length(Self) = left
                 /\ ExonicBases(Self) = FirstBases(ExonicBases(pre), left)
                 /\ start = pre.start /\ thick_start = pre.thick_start
                 /\ \A i \in DOMAIN block_starts :
                       block_starts[i] = pre.block_starts[i]
           /\ (pre.strand = "+" /\ ~down)
              => /\ exc = "none"
                 /\ Len(block_starts) = Len(block_lens)
                 /\ get_total_block_length(Self) = left
                 /\ ExonicBases(Self) = LastBases(ExonicBases(pre), left)
                 /\ stop = pre.stop /\ thick_stop = pre.thick_stop
           /\ (pre.strand = "-" /\ call.allow_invert /\ down)
              => [self |-> Self, exc |-> exc] = TrimUpstreamBody(pre, bp)
           /\ (pre.strand = "-" /\ call.allow_invert /\ ~down)
              => [self |-> Self, exc |-> exc] = TrimDownstreamBody(pre, bp)

\* C26's case: a (-) record of two blocks with an intron, trimmed downstream
\* with inversion allowed by the length of its first block
C26_Witness ==
    /\ call.op = "trim_bp_downstream"
    /\ call.allow_invert
    /\ pre.strand = "-"
    /\ ValidRecord(pre) /\ HasIntron(pre)
    /\ Len(pre.block_lens) = 2
    /\ call.arg = pre.block_lens[1]
    /\ Len(block_lens) = 1
    /\ stop = pre.stop
    /\ exc = "none"

\* C27: after a trim that returns, on a valid record whose block_count was the
\* length of its two block lists, block_count is again the length of
\* block_lens and of block_starts, also after an upstream trim that ends on a
\* block edge and removes the emptied block.
C27_BlockCountConsistent ==
    ( /\ call.op \in TrimOps
      /\ exc = "none"
      /\ ValidRecord(pre)
      /\ pre.block_count = Len(pre.block_lens) )
    => /\ block_count = Len(block_lens)
       /\ block_count = Len(block_starts)

\* the part of C27 that holds: trims that take 0 < bp < T bases and do not
\* end an upstream trim on a block edge
C27_BlockCountOffEdge ==
    ( /\ call.op \in TrimBpOps
      /\ exc = "none"
      /\ ValidRecord(pre)
      /\ pre.block_count = Len(pre.block_lens)
      /\ call.arg > 0 /\ call.arg < get_total_block_length(pre)
      /\ ~ /\ (call.op = "trim_bp_upstream")
                  <=> (pre.strand = "+" \/ ~call.allow_invert)
            /\ \E i \in DOMAIN pre.block_lens :
                  call.arg = SumSeq(SubSeq(pre.block_lens, 1, i)) )
    => /\ block_count = Len(block_lens)
       /\ block_count = Len(block_starts)

\* C22: on a valid record, for a position whose walked offset lies strictly
\* between 0 and the total block length, trim_to_genomic_position_upstream
\* keeps exactly the exonic bases >= pos on '+' (stop unchanged) and those
\* < pos on '-' (start unchanged); trim_to_genomic_position_downstream keeps
\* exactly those < pos on '+' (start unchanged) and those >= pos on '-' (stop
\* unchanged).
C22_TrimByTranscriptionDirection ==
    ( /\ call.op \in {"trim_to_genomic_position_upstream",
                      "trim_to_genomic_position_downstream"}
      /\ ValidRecord(pre)
      /\ WalkedAt(pre, call.arg) > 0
      /\ WalkedAt(pre, call.arg) < get_total_block_length(pre) )
    => LET pos     == call.arg
           keepsHi == (call.op = "trim_to_genomic_position_upstream")
                          <=> (pre.strand = "+")
       IN  /\ exc = "none"
           /\ Len(block_starts) = Len(block_lens)
           /\ IF keepsHi
              THEN /\ ExonicBases(Self) = {b \in ExonicBases(pre) : b >= pos}
                   /\ stop = pre.stop
              ELSE /\ ExonicBases(Self) = {b \in ExonicBases(pre) : b < pos}
                   /\ start = pre.start

\* C22's case: a (-) strand record of two blocks with an intron, trimmed
\* upstream at a position inside its second block
C22_Witness ==
    /\ call.op = "trim_to_genomic_position_upstream"
    /\ pre.strand = "-"
    /\ ValidRecord(pre) /\ HasIntron(pre)
    /\ Len(pre.block_lens) = 2
    /\ call.arg > pre.start + pre.block_starts[2]
    /\ call.arg < pre.stop
    /\ exc = "none"

\* ------------------------------------------------------------------- Cigar
\* A string is a sequence of one-character strings.
DigitChars == {"0", "1", "2", "3", "4", "5", "6", "7", "8", "9"}

isdigit(c) == c \in DigitChars

DigitValue(c) ==
    CASE c = "0" -> 0 [] c = "1" -> 1 [] c = "2" -> 2 [] c = "3" -> 3
      [] c = "4" -> 4 [] c = "5" -> 5 [] c = "6" -> 6 [] c = "7" -> 7
      [] c = "8" -> 8 [] c = "9" -> 9

DigitChar(d) ==
    CASE d = 0 -> "0" [] d = 1 -> "1" [] d = 2 -> "2" [] d = 3 -> "3"
      [] d = 4 -> "4" [] d = 5 -> "5" [] d = 6 -> "6" [] d = 7 -> "7"
      [] d = 8 -> "8" [] d = 9 -> "9"

\* int("".join(n)) on a run of digits
RECURSIVE IntOfDigits(_, _)
IntOfDigits(chars, acc) ==
    IF chars = <<>> THEN acc
    ELSE IntOfDigits(Tail(chars), acc * 10 + DigitValue(Head(chars)))

int(chars) == IntOfDigits(chars, 0)

\* str(n) / f"{n}" of an int
RECURSIVE str(_)
str(n) ==
    IF n < 0 THEN <<"-">> \o str(-n)
    ELSE IF n < 10 THEN <<DigitChar(n)>>
    ELSE Append(str(n \div 10), DigitChar(n % 10))

\* itertools.groupby(value_string, lambda c: c.isdigit()): the maximal runs of
\* characters with the same key, in order
RECURSIVE groupby(_)
groupby(chars) ==
    IF chars = <<>> THEN <<>>
    ELSE LET rest == groupby(Tail(chars))
             c    == Head(chars)
         IN  IF rest # <<>> /\ rest[1].key = isdigit(c)
             THEN <<[key |-> rest[1].key, group |-> <<c>> \o rest[1].group]>>
                  \o Tail(rest)
             ELSE <<[key |-> isdigit(c), group |-> <<c>>]>> \o rest

CigarFeature(symbol, size) == [symbol |-> symbol, size |-> size]

\* CigarFeature.set_size: self.size = size
set_size(self, size) == [self EXCEPT !.size = size]

\* the loop of Cigar.__init__ over the runs: the run the for statement takes is
\* the size, the run next(cig_iter) takes is the symbol
RECURSIVE CigarInitLoop(_, _)
CigarInitLoop(runs, new_features) ==
    IF runs = <<>> THEN [features |-> new_features, exc |-> "none"]
    ELSE IF ~runs[1].key THEN [features |-> <<>>, exc |-> "ValueError"]
    ELSE IF Len(runs) < 2 THEN [features |-> <<>>, exc |-> "StopIteration"]
    ELSE CigarInitLoop(SubSeq(runs, 3, Len(runs)),
                       Append(new_features,
                              CigarFeature(runs[2].group, int(runs[1].group))))

Cigar_init(string) == CigarInitLoop(groupby(string), <<>>)

\* the loop of Cigar.__str__ writing the symbol in front of the size
RECURSIVE CigarStrLoop_symbol_first(_, _)
CigarStrLoop_symbol_first(feats, final) ==
    IF feats = <<>> THEN final
    ELSE CigarStrLoop_symbol_first(
             Tail(feats), final \o Head(feats).symbol \o str(Head(feats).size))

\* the loop of Cigar.__str__: final_str += f"{feature.size}{feature.symbol}"
RECURSIVE CigarStrLoop(_, _)
CigarStrLoop(feats, final) ==
    IF feats = <<>> THEN final
    ELSE CigarStrLoop(Tail(feats),
                      final \o str(Head(feats).size) \o Head(feats).symbol)

Cigar_str(feats) == CigarStrLoop(feats, <<>>)

\* ------------------------------------------------------ Cigar: the strings
\* characters the CIGAR strings of the model are written with
SizeChars == {"0", "6"}
OpChars == {"M", "N", "S"}

RECURSIVE CharRuns(_, _)
CharRuns(alphabet, n) ==
    IF n = 0 THEN {<<>>}
    ELSE {<<c>> \o r : c \in alphabet, r \in CharRuns(alphabet, n - 1)}

\* one <digits><operation letter> token; the digits may start with "0"
Tokens ==
    {d \o <<o>> : d \in UNION {CharRuns(SizeChars, k) : k \in 1..MaxDigits},
                  o \in OpChars}

RECURSIVE TokenStrings(_)
TokenStrings(n) ==
    IF n = 0 THEN {<<>>}
    ELSE {t \o r : t \in Tokens, r \in TokenStrings(n - 1)}

BedIdle ==
    /\ strand = "+"
    /\ start = 0
    /\ stop = 1
    /\ thick_start = 0
    /\ thick_stop = 1
    /\ block_count = 1
    /\ block_lens = <<1>>
    /\ block_starts = <<0>>
    /\ call = [op |-> "__init__", arg |-> 0, allow_invert |-> TRUE]
    /\ pre = Self
    /\ exc = "none"
    /\ ret = None
    /\ nops = 0
    /\ row = NoRow
    /\ bed_x = 12

InitCigar ==
    /\ BedIdle
    /\ value_string \in UNION {TokenStrings(n) : n \in 1..MaxTokens}
    /\ features = <<>>
    /\ final_str = <<>>
    /\ cigar_pc = "new"
    /\ cigar_call = NoCigarCall
    /\ cigar_pre = <<>>
    /\ BatchIdle
    /\ MainIdle

\* Cigar(value_string)
CigarInit ==
    /\ cigar_pc = "new"
    /\ LET r == Cigar_init(value_string)
       IN  /\ features' = r.features
           /\ cigar_pc' = IF r.exc = "none" THEN "parsed" ELSE r.exc
    /\ UNCHANGED <<value_string, final_str, cigar_call, cigar_pre>>
    /\ UNCHANGED nonCigarVars

\* str(cigar)
CigarStr ==
    /\ cigar_pc = "parsed"
    /\ final_str' = Cigar_str(features)
    /\ cigar_pc' = "printed"
    /\ UNCHANGED <<value_string, features, cigar_call, cigar_pre>>
    /\ UNCHANGED nonCigarVars

\* the sizes set_size is called with: negative, zero, positive
SetSizes == -1..2

\* cigar.features[index].set_size(size), index counted from 0
CigarSetSize ==
    /\ cigar_pc = "parsed"
    /\ \E index \in 0..(Len(features) - 1), size \in SetSizes :
          /\ features' = PySet(features, index,
                               set_size(PyGet(features, index), size))
          /\ cigar_call' = [op |-> "set_size", index |-> index, size |-> size]
    /\ cigar_pre' = features
    /\ cigar_pc' = "resized"
    /\ UNCHANGED <<value_string, final_str>>
    /\ UNCHANGED nonCigarVars

NextCigar == CigarInit \/ CigarStr \/ CigarSetSize

SpecCigar == InitCigar /\ [][NextCigar]_vars

\* ------------------------------------------------------ Cigar: properties
\* positions of the operation letters of a string, in order
OpPositions(string) == {p \in DOMAIN string : ~isdigit(string[p])}

\* a non-empty concatenation of <positive integer without leading zeros>
\* <one operation letter> tokens
WellFormed(string) ==
    /\ string # <<>>
    /\ ~isdigit(string[Len(string)])
    /\ \A p \in DOMAIN string :
          /\ ~isdigit(string[p]) => (p > 1 /\ isdigit(string[p - 1]))
          /\ (isdigit(string[p]) /\ (p = 1 \/ ~isdigit(string[p - 1])))
                => string[p] # "0"

\* 10 to the power k
RECURSIVE Pow10(_)
Pow10(k) == IF k = 0 THEN 1 ELSE 10 * Pow10(k - 1)

\* the number a run of decimal digits denotes, by place value
RECURSIVE PlaceValue(_)
PlaceValue(digits) ==
    IF digits = <<>> THEN 0
    ELSE DigitValue(Head(digits)) * Pow10(Len(digits) - 1)
         + PlaceValue(Tail(digits))

\* C10: for a well-formed CIGAR string s, Cigar(s).features holds one
\* CigarFeature per token, in the order of the string, with the token's size
\* and symbol, and str(Cigar(s)) is s again.
C10_CigarRoundTrip ==
    (cigar_pc \in {"parsed", "printed"} /\ WellFormed(value_string))
    => LET ops == OpPositions(value_string)
           \* the position of the k-th operation letter, 0 for k = 0
           OpAt(k) == IF k = 0 THEN 0
                      ELSE CHOOSE p \in ops :
                              Cardinality({q \in ops : q <= p}) = k
       IN  /\ Len(features) = Cardinality(ops)
           /\ \A k \in DOMAIN features :
                 /\ features[k].symbol = <<value_string[OpAt(k)]>>
                 /\ features[k].size =
                       PlaceValue(SubSeq(value_string, OpAt(k - 1) + 1,
                                         OpAt(k) - 1))
                 /\ features[k].size >= 1
           /\ cigar_pc = "printed" => final_str = value_string

\* C10's case: a two-operation string with a two-digit size, parsed and printed
C10_Witness ==
    /\ cigar_pc = "printed"
    /\ WellFormed(value_string)
    /\ Len(features) = 2
    /\ features[1].size = 66
    /\ features[2].symbol = <<"S">>
    /\ final_str = value_string

\* C15: set_size with a value <= 0 fails with an error and leaves the length
\* of the operation as it was; with a value >= 1 it returns and changes the
\* length of that operation only.
C15_ResizeRejection ==
    cigar_call.op = "set_size"
    => IF cigar_call.size <= 0
       THEN cigar_pc # "resized" /\ features = cigar_pre
       ELSE /\ cigar_pc = "resized"
            /\ features =
                  [cigar_pre EXCEPT ![cigar_call.index + 1].size = cigar_call.size]

\* ------------------------------------------- BedRow: construction from a line
\* an attribute the constructor never assigned
Unset == "unset"

\* text.split(","): the pieces between the commas, in order
RECURSIVE SplitComma(_, _, _)
SplitComma(chars, piece, pieces) ==
    IF chars = <<>> THEN Append(pieces, piece)
    ELSE IF Head(chars) = ","
         THEN SplitComma(Tail(chars), <<>>, Append(pieces, piece))
         ELSE SplitComma(Tail(chars), Append(piece, Head(chars)), pieces)

\* [int(x) for x in text.split(",")[:-1]] if text.endswith(",")
\* else [int(x) for x in text.split(",")]
IntList(text) ==
    LET pieces == SplitComma(text, <<>>, <<>>)
        kept   == IF text # <<>> /\ text[Len(text)] = ","
                  THEN PySliceTo(pieces, -1) ELSE pieces
    IN  [k \in DOMAIN kept |-> int(kept[k])]

\* BedRow.__init__, cols being its list `features`: cols[k] is column k of the
\* line, counted from 0; the
\* result is the object as far as it was assigned and the exception raised
BedRow_init(cols) ==
    LET x  == Len(cols)
        o0 == [strand |-> Unset, start |-> Unset, stop |-> Unset,
               thick_start |-> Unset, thick_stop |-> Unset,
               block_count |-> Unset, block_lens |-> Unset,
               block_starts |-> Unset]
        o6 == [o0 EXCEPT !.start = int(PyGet(cols, 1)),
                         !.stop = int(PyGet(cols, 2)),
                         !.strand = PyGet(cols, 5)]
        o8 == IF x > 6
              THEN [o6 EXCEPT !.thick_start = int(PyGet(cols, 6)),
                              !.thick_stop = int(PyGet(cols, 7))]
              ELSE o6
        oc == [o8 EXCEPT !.block_count = int(PyGet(cols, 9)),
                         !.block_lens = IntList(PyGet(cols, 10)),
                         !.block_starts = IntList(PyGet(cols, 11))]
    IN  IF x \notin {6, 8, 9, 12} THEN Raise(o0, "ColumnCountError")
        ELSE IF x > 7 /\ ~PyIndexOK(cols, 8) THEN Raise(o8, "IndexError")
        ELSE IF x > 8 /\ ~PyIndexOK(cols, 9) THEN Raise(o8, "IndexError")
        ELSE IF x > 8 THEN Return(oc)
        ELSE Return(o8)

\* BedRow.is_genomic_position_in_block on an object with bed_x columns: the
\* thick attributes exist for bed_x > 6, the block lists for bed_x > 8
is_genomic_position_in_block(self, x, genomic_position, force_exon) ==
    IF force_exon /\ x <= 6 THEN [exc |-> "AttributeError", val |-> None]
    ELSE IF force_exon /\ (genomic_position < self.thick_start
                           \/ genomic_position > self.thick_stop)
    THEN [exc |-> "none", val |-> FALSE]
    ELSE IF self.start > genomic_position \/ self.stop < genomic_position
    THEN [exc |-> "none", val |-> FALSE]
    ELSE IF x = 6 THEN [exc |-> "none", val |-> TRUE]
    ELSE IF x <= 8 THEN [exc |-> "AttributeError", val |-> None]
    ELSE LET r == genomic_position_to_block_position(self, genomic_position)
         IN  IF r.exc = "none" THEN [exc |-> "none", val |-> TRUE]
             ELSE IF r.exc = "OutOfExonError" THEN [exc |-> "none", val |-> FALSE]
             ELSE [exc |-> r.exc, val |-> None]

\* the text of a block list, with or without the trailing comma
RECURSIVE ListText(_, _)
ListText(list, trailing) ==
    IF list = <<>> THEN <<>>
    ELSE IF Len(list) = 1
         THEN str(list[1]) \o (IF trailing THEN <<",">> ELSE <<>>)
         ELSE str(list[1]) \o <<",">> \o ListText(Tail(list), trailing)

\* the twelve columns of the line of a record
Columns(self, trailing) ==
    << "chr1", str(self.start), str(self.stop), "t", "0", self.strand,
       str(self.thick_start), str(self.thick_stop), "0",
       str(self.block_count), ListText(self.block_lens, trailing),
       ListText(self.block_starts, trailing) >>

\* the numbers of columns of the lines: the four formats, and 5 and 7
ColumnCounts == {5, 6, 7, 8, 9, 12}

InitRow ==
    /\ \E s \in {"+", "-"}, n \in 1..MaxBlocks, trailing \in BOOLEAN,
          x \in ColumnCounts :
         \E lens \in [1..n -> 1..MaxBlockLen], gaps \in [1..(n - 1) -> 0..MaxGap] :
            LET offs == OffsetsOf(lens, gaps)
                end  == offs[n] + lens[n]
            IN  \E ts \in {0, end} : \E te \in {ts, end} :
                   row = SubSeq(Columns([strand |-> s, start |-> 0, stop |-> end,
                                         thick_start |-> ts, thick_stop |-> te,
                                         block_count |-> n, block_lens |-> lens,
                                         block_starts |-> offs], trailing),
                                1, x)
    /\ bed_x = Unset
    /\ strand = Unset /\ start = Unset /\ stop = Unset
    /\ thick_start = Unset /\ thick_stop = Unset
    /\ block_count = Unset /\ block_lens = Unset /\ block_starts = Unset
    /\ call = [op |-> "row", arg |-> 0, allow_invert |-> TRUE]
    /\ pre = Self
    /\ exc = "none"
    /\ ret = None
    /\ nops = 0
    /\ CigarIdle
    /\ BatchIdle
    /\ MainIdle

\* BedRow(row)
BedRowInit ==
    /\ call.op = "row"
    /\ LET r == BedRow_init(row)
       IN  /\ strand' = r.self.strand
           /\ start' = r.self.start
           /\ stop' = r.self.stop
           /\ thick_start' = r.self.thick_start
           /\ thick_stop' = r.self.thick_stop
           /\ block_count' = r.self.block_count
           /\ block_lens' = r.self.block_lens
           /\ block_starts' = r.self.block_starts
           /\ exc' = r.exc
    /\ bed_x' = Len(row)
    /\ call' = [op |-> "__init__", arg |-> 0, allow_invert |-> TRUE]
    /\ pre' = Self
    /\ UNCHANGED <<ret, nops, row>>
    /\ UNCHANGED nonBedVars

\* row.is_genomic_position_in_block(pos, force_exon) on a constructed object
IsGenomicPositionInBlock ==
    /\ Parsed
    /\ row # NoRow
    /\ \E pos \in PosRange, force_exon \in BOOLEAN :
          LET r == is_genomic_position_in_block(Self, bed_x, pos, force_exon)
          IN  /\ call' = [op |-> "is_genomic_position_in_block", arg |-> pos,
                          allow_invert |-> TRUE, force_exon |-> force_exon]
              /\ exc' = r.exc
              /\ ret' = r.val
    /\ pre' = Self
    /\ UNCHANGED <<strand, start, stop, thick_start, thick_stop, block_count,
                   block_lens, block_starts, nops, row, bed_x>>
    /\ UNCHANGED nonBedVars

NextRow == BedRowInit \/ IsGenomicPositionInBlock

SpecRow == InitRow /\ [][NextRow]_vars

\* C17: a line of 6, 8 or 9 columns is parsed into a record, and on that
\* record is_genomic_position_in_block(pos) with force_exon=False returns True
\* for start <= pos <= stop and False for every other pos, without raising.
C17_SingleBlockRecords ==
    /\ (call.op = "__init__" /\ Len(row) \in {6, 8, 9}) => exc = "none"
    /\ (call.op = "is_genomic_position_in_block" /\ bed_x \in {6, 8, 9}
        /\ ~call.force_exon)
       => /\ exc = "none"
          /\ ret = (start <= call.arg /\ call.arg <= stop)

\* the part of C17 the 6-column records satisfy
C17_Bed6 ==
    (call.op = "is_genomic_position_in_block" /\ bed_x = 6 /\ ~call.force_exon)
    => /\ exc = "none"
       /\ ret = (start <= call.arg /\ call.arg <= stop)

\* --------------------------- export_df_orfs and trim_translationai_bed
MaxEntries == 2

\* dict.get(key): the value, None for a key the dict does not hold
dict_get(dict, key) == IF key \in DOMAIN dict THEN dict[key] ELSE None

\* a copy that is the object itself: source_row = transcript_dict.get(...)
deepcopy_alias(h, ref) == [heap |-> [h EXCEPT !.copy = None], ref |-> ref]

\* copy.deepcopy(obj): a new object with the fields of obj, lists included;
\* deepcopy(None) is None.  The object the name was bound to before is garbage.
deepcopy(h, ref) ==
    IF ref = None THEN [heap |-> [h EXCEPT !.copy = None], ref |-> None]
    ELSE [heap |-> [h EXCEPT !.copy = h[ref]], ref |-> "copy"]

\* an except clause that catches OutOfExonError only
except_OutOfExonError(e) == e = "OutOfExonError"

\* `except Exception as e`: every exception the trims raise is caught
except_Exception(e) == e # "none"

\* the try block of export_df_orfs on the object ref: both trims, in the order
\* the strand column of the entry selects; the heap after it and what it raised
ExportTry(h, ref, cand) ==
    IF ref = None THEN [heap |-> h, exc |-> "AttributeError"]
    ELSE LET first  == IF cand.strand = "+" THEN cand.a ELSE cand.b
             second == IF cand.strand = "+" THEN cand.b ELSE cand.a
             r1     == trim_to_genomic_position_upstream(h[ref], first)
             r2     == trim_to_genomic_position_downstream(r1.self, second)
         IN  IF r1.exc # "none"
             THEN [heap |-> [h EXCEPT ![ref] = r1.self], exc |-> r1.exc]
             ELSE [heap |-> [h EXCEPT ![ref] = r2.self], exc |-> r2.exc]

\* the try block of trim_translationai_bed after the copy was taken
TranslationaiTry(h, ref, cand) ==
    LET base_len == get_total_block_length(h[ref])
        r1       == trim_bp_upstream(h[ref], cand.orf_start, TRUE)
        r2       == trim_bp_downstream(r1.self, base_len - cand.orf_stop, TRUE)
    IN  IF r1.exc # "none"
        THEN [heap |-> [h EXCEPT ![ref] = r1.self], exc |-> r1.exc]
        ELSE [heap |-> [h EXCEPT ![ref] = r2.self], exc |-> r2.exc]

\* export_df_orfs after the try block: the thick region becomes the record
ExportFinish(self) ==
    [self EXCEPT !.thick_start = self.start, !.thick_stop = self.stop]

\* ids of the candidates: the transcript of the lookup table and one it lacks
EntryIds == {"t", "missing"}

InitBatch ==
    /\ BedIdle
    /\ CigarIdle
    /\ MainIdle
    /\ batch_fn \in {"export_df_orfs", "trim_translationai_bed"}
    /\ \E s \in {"+", "-"}, n \in 1..MaxBlocks :
         \E lens \in [1..n -> 1..MaxBlockLen], gaps \in [1..(n - 1) -> 0..MaxGap] :
            LET offs == OffsetsOf(lens, gaps)
            IN  base0 = [strand |-> s, start |-> 0, stop |-> offs[n] + lens[n],
                         thick_start |-> 0, thick_stop |-> offs[n] + lens[n],
                         block_count |-> n, block_lens |-> lens,
                         block_starts |-> offs]
    /\ heap = [t |-> base0, copy |-> None]
    /\ transcript_dict = [t |-> "t"]
    /\ n_entries \in 0..MaxEntries
    /\ idx = 0
    /\ entry = NoEntry
    /\ source_row = None
    /\ out_row = <<>>
    /\ dropped = 0
    /\ written = 0
    /\ batch_pc = "loop"

\* what one iteration leaves: the heap, the counters, the row it wrote
Iterated(cand, d, t, new_row) ==
    /\ source_row' = d.ref
    /\ entry' = [cand EXCEPT !.exc = t.exc]
    /\ idx' = idx + 1
    /\ IF except_Exception(t.exc)
       THEN /\ dropped' = dropped + 1
            /\ heap' = t.heap
            /\ out_row' = <<>>
            /\ UNCHANGED <<written, batch_pc>>
       ELSE IF t.exc # "none"
       THEN /\ batch_pc' = t.exc
            /\ heap' = t.heap
            /\ out_row' = <<>>
            /\ UNCHANGED <<written, dropped>>
       ELSE /\ heap' = [t.heap EXCEPT ![d.ref] = new_row]
            /\ out_row' = <<new_row>>
            /\ written' = written + 1
            /\ UNCHANGED <<dropped, batch_pc>>
    /\ UNCHANGED <<batch_fn, transcript_dict, base0, n_entries>>
    /\ UNCHANGED <<bedVars, cigarVars, mainVars>>

\* one iteration of `for entry in df.itertuples()` (common.py:112-133)
ExportDfOrfsEntry ==
    /\ batch_fn = "export_df_orfs"
    /\ batch_pc = "loop"
    /\ idx < n_entries
    \* genomic_coords is chrom|a|b|strand with a <= b
    /\ \E id \in EntryIds, os \in {"+", "-"},
          a \in (base0.start - 1)..(base0.stop + 1) :
       \E b \in a..(base0.stop + 1) :
          LET cand == [id |-> id, a |-> a, b |-> b, strand |-> os, exc |-> "none"]
              d    == deepcopy(heap, dict_get(transcript_dict, id))
              t    == ExportTry(d.heap, d.ref, cand)
          IN  Iterated(cand, d, t,
                       IF t.exc = "none" THEN ExportFinish(t.heap[d.ref])
                       ELSE base0)

\* one iteration of `for i, variant in enumerate(variants)` with its lookup
\* base_row = ref_rows[key] (translationai_prep.py:103-119)
TrimTranslationaiVariant ==
    /\ batch_fn = "trim_translationai_bed"
    /\ batch_pc = "loop"
    /\ idx < n_entries
    \* a predicted ORF: orf_start <= orf_stop
    /\ \E id \in EntryIds,
          orf_start \in -1..(get_total_block_length(base0) + 1) :
       \E orf_stop \in orf_start..(get_total_block_length(base0) + 1) :
          LET cand == [id |-> id, orf_start |-> orf_start,
                       orf_stop |-> orf_stop, exc |-> "none"]
          IN  IF id \notin DOMAIN transcript_dict
              THEN /\ batch_pc' = "KeyError"
                   /\ entry' = cand
                   /\ UNCHANGED <<batch_fn, heap, transcript_dict, base0,
                                  n_entries, idx, source_row, out_row, dropped,
                                  written>>
                   /\ UNCHANGED <<bedVars, cigarVars, mainVars>>
              ELSE LET d == deepcopy(heap, transcript_dict[id])
                       t == TranslationaiTry(d.heap, d.ref, cand)
                   IN  Iterated(cand, d, t, t.heap[d.ref])

\* the loop is over: return dropped, x / writelines(final_rows)
BatchReturn ==
    /\ batch_pc = "loop"
    /\ idx = n_entries
    /\ batch_pc' = "returned"
    /\ UNCHANGED <<batch_fn, heap, transcript_dict, base0, n_entries, idx,
                   entry, source_row, out_row, dropped, written>>
    /\ UNCHANGED <<bedVars, cigarVars, mainVars>>

NextBatch == ExportDfOrfsEntry \/ TrimTranslationaiVariant \/ BatchReturn

SpecBatch == InitBatch /\ [][NextBatch]_vars

\* the row a candidate yields from the record as it was parsed: <<row>>, or
\* <<>> when its trims raise or the lookup table has no such transcript
RowOf(fn, rec, cand) ==
    IF cand.id \notin DOMAIN transcript_dict THEN <<>>
    ELSE IF fn = "export_df_orfs"
    THEN LET t == ExportTry([copy |-> rec], "copy", cand)
         IN  IF t.exc = "none" THEN <<ExportFinish(t.heap.copy)>> ELSE <<>>
    ELSE LET t == TranslationaiTry([copy |-> rec], "copy", cand)
         IN  IF t.exc = "none" THEN <<t.heap.copy>> ELSE <<>>

\* C18: an exception raised while a candidate is trimmed is caught and counted
\* in `dropped`, the loop goes on, and on return every candidate was taken and
\* dropped + written rows is the number of candidates.
C18_BatchResilience ==
    /\ entry.exc # "none" => (batch_pc \in {"loop", "returned"} /\ out_row = <<>>)
    /\ batch_pc \in {"loop", "returned"} => dropped + written = idx
    /\ batch_pc = "returned" => idx = n_entries

\* C18's case: a batch of two returned, one candidate written, then one dropped
C18_Witness ==
    /\ batch_pc = "returned"
    /\ n_entries = 2
    /\ written = 1
    /\ dropped = 1
    /\ entry.exc = "OutOfExonError"

\* C19: the record of the lookup table is unchanged after every iteration,
\* whether the trims returned or raised, and the row an iteration writes is the
\* row its candidate yields from the record as parsed.
C19_CopyIsolation ==
    batch_pc # "idle"
    => /\ \A k \in DOMAIN transcript_dict : heap[transcript_dict[k]] = base0
       /\ (idx > 0 /\ batch_pc \in {"loop", "returned"})
          => out_row = RowOf(batch_fn, base0, [entry EXCEPT !.exc = "none"])

\* C19's case: after a candidate whose trim raised on its copy, a second
\* candidate of the same transcript wrote a trimmed row
C19_Witness ==
    /\ idx = 2
    /\ dropped = 1
    /\ written = 1
    /\ out_row # <<>>
    /\ out_row # <<base0>>
    /\ entry.id = "t"

\* ------------------------------------------ correct_minimap: parsing the SAM
MaxWiggle == 1
MaxCutoff == 1
MaxClip == 2
MaxPolyA == 1
MaxSeqLen == 5

Abs(n) == IF n < 0 THEN -n ELSE n

\* s[a:b]
PySlice(s, a, b) ==
    LET lo == PyClamp(s, a)
        hi == PyClamp(s, b)
    IN  IF hi <= lo THEN <<>> ELSE SubSeq(s, lo + 1, hi)

\* dict[key] = value
dict_set(dict, key, value) ==
    [k \in DOMAIN dict \cup {key} |-> IF k = key THEN value ELSE dict[k]]

\* A read id is the tuple my_id.split("_") of its tokens, a token a record
\* [tag, val]: "3Clip<val>", "PolyA<val>", "PolyARead<val>", or a name.
\* The loop over the tokens (correct_minimap.py:188-192): the last 3Clip token
\* and the last PolyA token that is no PolyARead token count.
RECURSIVE UnwrapLoop(_, _, _)
UnwrapLoop(unwrapped, clip, poly_a) ==
    IF unwrapped = <<>> THEN [clip |-> clip, poly_a |-> poly_a]
    ELSE LET data == Head(unwrapped)
         IN  UnwrapLoop(Tail(unwrapped),
                        IF data.tag = "3Clip" THEN data.val ELSE clip,
                        IF data.tag = "PolyA" THEN data.val ELSE poly_a)

\* the slice stored for a row the code takes as forward (197-199)
ForwardWindow(seq, clip, poly_a, wiggle) ==
    PySlice(seq, -(clip + poly_a) - Abs(wiggle), -(clip + poly_a) + clip)

\* the slice stored for a row the code takes as reverse (202)
ReverseWindow(seq, clip, poly_a, wiggle) ==
    PySlice(seq, poly_a, poly_a + clip + Abs(wiggle))

\* the branch at line 196: cols[1] != "16" compares the text of the flag
sam_window(r, u, wiggle) ==
    IF str(r.flag) # <<"1", "6">>
    THEN ForwardWindow(r.seq, u.clip, u.poly_a, wiggle)
    ELSE ReverseWindow(r.seq, u.clip, u.poly_a, wiggle)

\* the loop over the rows of the SAM file (181-207)
RECURSIVE SamLoop(_, _, _, _)
SamLoop(rows, cutoff, wiggle, cd) ==
    IF rows = <<>> THEN cd
    ELSE LET r == Head(rows)
             u == UnwrapLoop(r.id, -1, 0)
         IN  SamLoop(Tail(rows), cutoff, wiggle,
                     IF u.clip >= cutoff
                     THEN dict_set(cd, r.id, sam_window(r, u, wiggle))
                     ELSE cd)

\* "|".join([chrom, end_pos, strand])
PosKey(chrom, pos, strand_) == <<chrom, str(pos), strand_>>

\* the loop over minimap.sam.bed8 with a key holding its last read only
RECURSIVE Bed8Loop_last_read(_, _, _)
Bed8Loop_last_read(rows, cd, spd) ==
    IF rows = <<>> THEN spd
    ELSE LET b       == Head(rows)
             end_pos == IF b.strand = "+" THEN b.stop ELSE b.start
             key     == PosKey(b.chrom, end_pos, b.strand)
         IN  Bed8Loop_last_read(Tail(rows), cd,
                      IF b.id \in DOMAIN cd /\ cd[b.id] # <<>>
                      THEN dict_set(spd, key, <<b.id>>)
                      ELSE spd)

\* the loop over the rows of minimap.sam.bed8 (212-234)
RECURSIVE Bed8Loop(_, _, _)
Bed8Loop(rows, cd, spd) ==
    IF rows = <<>> THEN spd
    ELSE LET b       == Head(rows)
             end_pos == IF b.strand = "+" THEN b.stop ELSE b.start
             key     == PosKey(b.chrom, end_pos, b.strand)
         IN  Bed8Loop(Tail(rows), cd,
                      IF b.id \in DOMAIN cd /\ cd[b.id] # <<>>
                      THEN dict_set(spd, key,
                                    IF key \in DOMAIN spd
                                    THEN Append(spd[key], b.id)
                                    ELSE <<b.id>>)
                      ELSE spd)

parse_sam_into_dicts(sam, bed, cutoff, wiggle) ==
    LET cd == SamLoop(sam, cutoff, wiggle, <<>>)
    IN  [clip_dict |-> cd, stop_pos_dict |-> Bed8Loop(bed, cd, <<>>)]

\* reference bases a CIGAR consumes: M, =, X, D, N
RECURSIVE RefLen(_)
RefLen(feats) ==
    IF feats = <<>> THEN 0
    ELSE (IF Head(feats).symbol \in {<<"M">>, <<"=">>, <<"X">>, <<"D">>, <<"N">>}
          THEN Head(feats).size ELSE 0) + RefLen(Tail(feats))

\* the BED row convert2bed writes for an alignment row (268-276): 0-based
\* start, end by the reference length of the CIGAR, strand by bit 0x10
convert2bed(r) ==
    [chrom |-> r.chrom, start |-> r.pos - 1,
     stop |-> r.pos - 1 + RefLen(Cigar_init(r.cigar).features),
     id |-> r.id,
     strand |-> IF (r.flag \div 16) % 2 = 1 THEN "-" ELSE "+"]

\* the flag values of the rows: forward and reverse, primary, secondary (0x100)
\* and supplementary (0x800)
Flags == {0, 16, 256, 272, 2048, 2064}

\* the ids of the rows: a name, then the 3Clip and PolyA tokens or none
ClipTokens == {<<>>} \cup {<<[tag |-> "3Clip", val |-> c]>> : c \in 0..MaxClip}

PolyATokens ==
    {<<>>, <<[tag |-> "PolyARead", val |-> 1]>>}
    \cup {<<[tag |-> "PolyA", val |-> a]>> : a \in 0..MaxPolyA}

ReadIds(name) ==
    {<<[tag |-> "name", val |-> name]>> \o c \o a :
        c \in ClipTokens, a \in PolyATokens}

\* bases that tell the positions of a sequence apart
BaseRun == <<"A", "C", "G", "T", "a", "c", "g", "t">>

SamRow(id, flag, pos, cigar, seq) ==
    [id |-> id, flag |-> flag, chrom |-> "chr1", pos |-> pos, cigar |-> cigar,
     seq |-> seq]

\* the CIGAR of an alignment of m matched bases with s bases soft-clipped at
\* the 3' end of the read: the right end of a forward row, the left end of a
\* reverse one
ClippedCigar(flag, m, s) ==
    LET clipped == IF s = 0 THEN <<>> ELSE str(s) \o <<"S">>
        matched == str(m) \o <<"=">>
    IN  IF (flag \div 16) % 2 = 1 THEN clipped \o matched ELSE matched \o clipped

InitSam ==
    /\ BedIdle /\ CigarIdle /\ BatchIdle
    /\ as_script \in BOOLEAN
    /\ args \in [wiggle : 0..MaxWiggle, clip_cutoff : 0..MaxCutoff]
    /\ \E id \in ReadIds("r1"), flag \in Flags, n \in 1..MaxSeqLen :
          \E s \in 0..(n - 1) :
             in_sam = <<SamRow(id, flag, 1, ClippedCigar(flag, n - s, s),
                               SubSeq(BaseRun, 1, n))>>
    /\ bed8 = <<convert2bed(in_sam[1])>>
    /\ toga = <<>>
    /\ exon_seqs = <<>>
    /\ ExonBlank /\ ParseBlank /\ MatchBlank /\ HitBlank /\ LoadBlank /\ OutBlank
    /\ main_pc = "parse_sam"

\* stop_pos_dict, clip_dict = parse_sam_into_dicts(...) (278-280)
ParseSamIntoDicts ==
    /\ main_pc = "parse_sam"
    /\ LET r == parse_sam_into_dicts(in_sam, bed8, args.clip_cutoff, args.wiggle)
       IN  /\ clip_dict' = r.clip_dict
           /\ stop_pos_dict' = r.stop_pos_dict
    /\ main_pc' = "match"
    /\ UNCHANGED <<inputVars, exonVars, matchVars, hitVars, loadVars, outVars>>
    /\ UNCHANGED <<bedVars, cigarVars, batchVars>>

NextSam == ParseSamIntoDicts

SpecSam == InitSam /\ [][NextSam]_vars

\* C20: a row whose clip window is extracted has the window taken from the
\* start of its sequence if and only if bit 0x10 of its flag is set, and from
\* the end of the sequence otherwise.
C20_ReverseStrandByBit ==
    main_pc = "match"
    => \A k \in DOMAIN in_sam :
          LET r == in_sam[k]
              u == UnwrapLoop(r.id, -1, 0)
          IN  (u.clip >= args.clip_cutoff
               /\ \A j \in DOMAIN in_sam : in_sam[j].id = r.id => j <= k)
              => /\ r.id \in DOMAIN clip_dict
                 /\ clip_dict[r.id] =
                       IF (r.flag \div 16) % 2 = 1
                       THEN ReverseWindow(r.seq, u.clip, u.poly_a, args.wiggle)
                       ELSE ForwardWindow(r.seq, u.clip, u.poly_a, args.wiggle)

\* ---------------------------------- correct_minimap: the sequence comparison
MaxWindow == 3
MaxExonSeq == 3

\* str.upper() on the letters that occur
upper(seq) ==
    [k \in DOMAIN seq |->
        CASE seq[k] = "a" -> "A" [] seq[k] = "c" -> "C" [] seq[k] = "g" -> "G"
          [] seq[k] = "t" -> "T" [] seq[k] = "n" -> "N" [] OTHER -> seq[k]]

\* my_seq[::-1]
Reversed(seq) == [k \in DOMAIN seq |-> seq[Len(seq) + 1 - k]]

rev_char == [c \in {"A", "C", "G", "T"} |->
                CASE c = "A" -> "T" [] c = "C" -> "G" [] c = "G" -> "C"
                  [] OTHER -> "A"]

\* rev_comp(my_seq): rev_char[char.upper()] raises KeyError for a letter other
\* than A, C, G, T
rev_comp(my_seq) ==
    LET up == upper(Reversed(my_seq))
    IN  IF \E k \in DOMAIN up : up[k] \notin DOMAIN rev_char
        THEN [exc |-> "KeyError", val |-> <<>>]
        ELSE [exc |-> "none", val |-> [k \in DOMAIN up |-> rev_char[up[k]]]]

\* An exon id is the record [t, n]: t is the transcript id split at "#", n the
\* count, and the id is the string "#".join(t) + "#" + str(n).
\* exon_id (397-399, 406-408): the last component of my_id.split("#") replaced
\* by the count of the next exon in transcription order, joined with "#"
DownstreamId(my_id, strand_) ==
    [t |-> my_id.t, n |-> IF strand_ = "+" THEN my_id.n + 1 ELSE my_id.n - 1]

\* one iteration of the loop over hits (394-423); a hit is the line
\* read, coordinates, strand, my_id, clip, i
HitEntry(hit, W, seqs) ==
    LET exon_id == DownstreamId(hit.my_id, hit.strand)
        rc      == IF hit.strand = "+" THEN [exc |-> "none", val |-> hit.clip]
                   ELSE rev_comp(hit.clip)
        wiggle_shift == IF hit.strand = "+" THEN W - hit.i ELSE W + hit.i
    IN  IF rc.exc # "none" THEN [exc |-> rc.exc, val |-> <<>>]
        ELSE IF exon_id \notin DOMAIN seqs THEN [exc |-> "KeyError", val |-> <<>>]
        ELSE [exc |-> "none",
              val |-> <<[origin       |-> hit.read,
                         toga_exon    |-> exon_id,
                         clip_seq     |-> PySliceFrom(rc.val, wiggle_shift),
                         toga_seq     |-> seqs[exon_id],
                         strand       |-> hit.strand,
                         wiggle_shift |-> IF hit.strand = "+" THEN hit.i
                                          ELSE -1 * hit.i]>>]

RECURSIVE HitsListLoop(_, _, _, _)
HitsListLoop(hs, W, seqs, acc) ==
    IF hs = <<>> THEN [exc |-> "none", val |-> acc]
    ELSE LET e == HitEntry(Head(hs), W, seqs)
         IN  IF e.exc # "none" THEN [exc |-> e.exc, val |-> acc]
             ELSE HitsListLoop(Tail(hs), W, seqs, acc \o e.val)

\* the comparison of one hit (432-449)
HitMark(hit, cutoff) ==
    IF /\ Len(hit.clip_seq) > cutoff
       /\ upper(hit.clip_seq) = upper(PySliceTo(hit.toga_seq, Len(hit.clip_seq)))
    THEN "TRUE" ELSE "FALSE"

\* the lines of hits.filtered.tsv
FilteredLines(hl, cutoff) ==
    [k \in DOMAIN hl |-> [hit |-> hl[k], mark |-> HitMark(hl[k], cutoff)]]

\* letters of the read's clip window and of the exon sequences
WindowChars == {"A", "t", "N"}
ExonChars == {"a", "T"}

RECURSIVE SeqsUpTo(_, _)
SeqsUpTo(chars, n) ==
    IF n = 0 THEN {<<>>}
    ELSE LET shorter == SeqsUpTo(chars, n - 1)
         IN  shorter \cup {Append(w, c) : w \in shorter, c \in chars}

InitHit ==
    /\ BedIdle /\ CigarIdle /\ BatchIdle
    /\ as_script \in BOOLEAN
    /\ \E W \in 0..MaxWiggle, cutoff \in 0..MaxCutoff :
          args = [wiggle |-> W, clip_cutoff |-> cutoff]
    /\ in_sam = <<>> /\ bed8 = <<>> /\ toga = <<>>
    /\ \E strand_ \in {"+", "-"}, i \in (-args.wiggle)..args.wiggle,
          clip \in SeqsUpTo(WindowChars, MaxWindow) \ {<<>>} :
          hits = <<[read |-> "r1", coords |-> <<"chr1", 10, 20>>,
                    strand |-> strand_, my_id |-> [t |-> "T", n |-> 2],
                    clip |-> clip, i |-> i]>>
    /\ \E toga_seq \in SeqsUpTo(ExonChars, MaxExonSeq) :
          /\ exon_seqs = (DownstreamId(hits[1].my_id, hits[1].strand) :> toga_seq)
          /\ exons_seqs_dict = exon_seqs
    /\ exon_precursor =
          <<[chrom |-> "chr1", start |-> IF hits[1].strand = "+" THEN 30 ELSE 0,
             stop |-> IF hits[1].strand = "+" THEN 35 ELSE 5,
             id |-> DownstreamId(hits[1].my_id, hits[1].strand),
             strand |-> hits[1].strand]>>
    /\ ExonBlank /\ ParseBlank /\ LoadBlank /\ OutBlank
    /\ main_strand = hits[1].strand
    /\ matching_tuples = <<>>
    /\ hits_list = <<>>
    /\ hits_filtered = <<>>
    /\ main_pc = "hits_list"

\* hits_list = [...] (393-423)
BuildHitsList ==
    /\ main_pc = "hits_list"
    /\ LET r == HitsListLoop(hits, args.wiggle, exons_seqs_dict, <<>>)
       IN  /\ hits_list' = r.val
           /\ main_pc' = IF r.exc = "none" THEN "compare" ELSE r.exc
    /\ UNCHANGED <<inputVars, exonVars, parseVars, matchVars, loadVars, outVars>>
    /\ UNCHANGED <<exon_precursor, exons_seqs_dict, hits_filtered>>
    /\ UNCHANGED <<bedVars, cigarVars, batchVars>>

\* the loop writing hits.filtered.tsv (427-450)
Compare ==
    /\ main_pc = "compare"
    /\ hits_filtered' = FilteredLines(hits_list, args.clip_cutoff)
    /\ main_pc' = "load"
    /\ UNCHANGED <<inputVars, exonVars, parseVars, matchVars, loadVars, outVars>>
    /\ UNCHANGED <<exon_precursor, exons_seqs_dict, hits_list>>
    /\ UNCHANGED <<bedVars, cigarVars, batchVars>>

NextHit == BuildHitsList \/ Compare

SpecHit == InitHit /\ [][NextHit]_vars

\* the reverse complement of a sequence, a letter outside A, C, G, T kept
Complemented(seq) ==
    LET up == upper(Reversed(seq))
    IN  [k \in DOMAIN up |->
            IF up[k] \in DOMAIN rev_char THEN rev_char[up[k]] ELSE up[k]]

\* the compared clip of a candidate
ComparedClip(hit, W) ==
    IF hit.strand = "+" THEN PySliceFrom(hit.clip, W - hit.i)
    ELSE PySliceFrom(Complemented(hit.clip), W + hit.i)

HitCondition(hit, W, cutoff, toga_seq) ==
    LET c == ComparedClip(hit, W)
    IN  /\ Len(c) > cutoff
        /\ Len(toga_seq) >= Len(c)
        /\ upper(c) = upper(SubSeq(toga_seq, 1, Len(c)))

\* C14: every candidate is marked, and no error is raised: its compared clip
\* is the stored window without its first W - i bases on '+', the reverse
\* complement of the window without its first W + i bases on '-', and it is
\* marked TRUE exactly if the compared clip is longer than clip_cutoff and
\* equals, ignoring case, the prefix of the downstream exon sequence of its
\* length.
C14_HitCondition ==
    /\ main_pc \notin {"KeyError"}
    /\ main_pc \in {"compare", "load"}
       => /\ Len(hits_list) = Len(hits)
          /\ \A k \in DOMAIN hits :
                hits_list[k].clip_seq = ComparedClip(hits[k], args.wiggle)
    /\ main_pc = "load"
       => /\ Len(hits_filtered) = Len(hits)
          /\ \A k \in DOMAIN hits :
                hits_filtered[k].mark = "TRUE"
                <=> HitCondition(hits[k], args.wiggle, args.clip_cutoff,
                                 exons_seqs_dict[DownstreamId(hits[k].my_id,
                                                              hits[k].strand)])

\* the part of C14 that holds: whenever the loop over the hits raises nothing,
\* every candidate is marked by the hit condition
C14_MarkedByCondition ==
    /\ main_pc \in {"compare", "load"}
       => /\ Len(hits_list) = Len(hits)
          /\ \A k \in DOMAIN hits :
                hits_list[k].clip_seq = ComparedClip(hits[k], args.wiggle)
    /\ main_pc = "load"
       => /\ Len(hits_filtered) = Len(hits)
          /\ \A k \in DOMAIN hits :
                hits_filtered[k].mark = "TRUE"
                <=> HitCondition(hits[k], args.wiggle, args.clip_cutoff,
                                 exons_seqs_dict[DownstreamId(hits[k].my_id,
                                                              hits[k].strand)])
    /\ main_pc = "KeyError"
       => \E k \in DOMAIN hits :
             /\ hits[k].strand = "-"
             /\ \E j \in DOMAIN hits[k].clip :
                   upper(hits[k].clip)[j] \notin DOMAIN rev_char

\* --------------------------------------- correct_minimap: the CIGAR rewrite
MaxMatch == 2
MaxSoftClip == 3
MaxIntron == 2
MaxClipSeq == 2

\* list.insert(index, x)
list_insert(list, index, x) ==
    LET k == PyClamp(list, index)
    IN  SubSeq(list, 1, k) \o <<x>> \o SubSeq(list, k + 1, Len(list))

\* Cigar.insert_feature with the feature appended at the end of the list
insert_feature_last(feats, feature, index) == Append(feats, feature)

\* Cigar.insert_feature(feature, index): features.insert(index, feature)
insert_feature(feats, feature, index) == list_insert(feats, index, feature)

\* the assignment to features[index].size left out
ResizeBy_skipped(feats, index, delta) == feats

\* my_cigar.features[index].size = my_cigar.features[index].size + delta
ResizeBy(feats, index, delta) ==
    PySet(feats, index,
          set_size(PyGet(feats, index), PyGet(feats, index).size + delta))

\* the rewrite of a '+' row (559-577): features, position; the row is
\* [sam_start, sam_stop] and the exon [exon_start, exon_stop]
RewritePlus(feats, pos, sam_coords, exon_coords, hit) ==
    LET wiggle_val == hit.wiggle
        dist == exon_coords.start - sam_coords.stop
        L    == Len(hit.clip_seq)
    IN  IF ~PyIndexOK(feats, -2)
        THEN [exc |-> "IndexError", features |-> feats, pos |-> pos]
        ELSE LET f1 == ResizeBy(feats, -2, -wiggle_val)
                 f2 == insert_feature(f1, CigarFeature(<<"N">>, dist + wiggle_val), -1)
                 f3 == insert_feature(f2, CigarFeature(<<"=">>, L), -1)
                 f4 == ResizeBy(f3, -1, wiggle_val - L)
             IN  [exc |-> "none", features |-> f4, pos |-> pos]

\* the rewrite of a '-' row (579-610)
RewriteMinus(feats, pos, sam_coords, exon_coords, hit) ==
    LET wiggle_val == -1 * hit.wiggle
        dist == sam_coords.start - exon_coords.stop
        L    == Len(hit.clip_seq)
        dist_open == IF hit.wiggle < 0 THEN dist + 1 ELSE dist
    IN  IF ~PyIndexOK(feats, 1)
        THEN [exc |-> "IndexError", features |-> feats, pos |-> pos]
        ELSE LET f1 == ResizeBy(feats, 1, -Abs(wiggle_val))
                 f2 == insert_feature(f1, CigarFeature(<<"N">>, dist + Abs(wiggle_val)), 1)
                 f3 == insert_feature(f2, CigarFeature(<<"=">>, L), 1)
                 f4 == ResizeBy(f3, 0, Abs(wiggle_val) - L)
             IN  [exc |-> "none", features |-> f4, pos |-> pos - dist_open - L]

\* the id with every 3Clip token replaced by "3Clip0" (613-617)
ClipZeroed(id) ==
    [k \in DOMAIN id |->
        IF id[k].tag = "3Clip" THEN [tag |-> "3Clip", val |-> 0] ELSE id[k]]

\* a dict that keeps the order of insertion: a sequence of [key, val]
Keys(dict) == {dict[k].key : k \in DOMAIN dict}

Lookup(dict, key) == (CHOOSE k \in DOMAIN dict : dict[k].key = key)

ordered_get(dict, key) == dict[Lookup(dict, key)].val

ordered_set(dict, key, val) ==
    IF key \in Keys(dict)
    THEN [dict EXCEPT ![Lookup(dict, key)] = [key |-> key, val |-> val]]
    ELSE Append(dict, [key |-> key, val |-> val])

\* the candidate the loops at 544 and 546 take next: cand_pos is the pair of
\* the position of the read in dict_sam_exons and of the exon in its list
HasCandidate ==
    \/ cand_pos[1] \in DOMAIN dict_sam_exons
       /\ cand_pos[2] < Len(dict_sam_exons[cand_pos[1]].val)
    \/ cand_pos[1] + 1 \in DOMAIN dict_sam_exons

NextCandidate ==
    IF cand_pos[1] \in DOMAIN dict_sam_exons
       /\ cand_pos[2] < Len(dict_sam_exons[cand_pos[1]].val)
    THEN <<cand_pos[1], cand_pos[2] + 1>>
    ELSE <<cand_pos[1] + 1, 1>>

\* the flag written for a further CIGAR of a read (632-639): strand is the
\* variable the loop over internal_exons.bed left bound (301)
SecondaryFlag(leaked, row_strand) ==
    256 + (IF leaked = "-" THEN 16 ELSE 0)

\* one iteration of the loop over the exons of a read (546-644)
CorrectCandidate ==
    /\ main_pc = "correct"
    /\ HasCandidate
    /\ LET at         == NextCandidate
           sam_id     == dict_sam_exons[at[1]].key
           exon       == dict_sam_exons[at[1]].val[at[2]]
           joined_id  == <<sam_id, exon>>
       IN  IF \/ sam_id \notin DOMAIN sam_stops_indexed
              \/ exon \notin DOMAIN indexed_exon_coords
           THEN /\ main_pc' = "KeyError"
                /\ UNCHANGED outVars
           ELSE IF as_script
           THEN /\ main_pc' = "NameError"
                /\ UNCHANGED outVars
           ELSE
           LET sam_coords == sam_stops_indexed[sam_id]
               exon_coords == indexed_exon_coords[exon]
               sam_cols   == sam_indexed[sam_id]
               my_cigar   == Cigar_init(sam_cols.cigar)
               hit        == map_sam_to_exon[joined_id]
               r          == IF sam_coords.strand = "+"
                             THEN RewritePlus(my_cigar.features, sam_cols.pos,
                                              sam_coords, exon_coords, hit)
                             ELSE RewriteMinus(my_cigar.features, sam_cols.pos,
                                               sam_coords, exon_coords, hit)
               text       == Cigar_str(r.features)
               new_cols   == [sam_cols EXCEPT !.id = ClipZeroed(sam_cols.id),
                                              !.cigar = text, !.pos = r.pos]
               seen       == IF sam_id \in DOMAIN tracked_cigars
                             THEN tracked_cigars[sam_id] ELSE <<>>
               step(outcome, written_row) ==
                   [at |-> at, sam_id |-> sam_id, exon |-> exon,
                    outcome |-> outcome, row |-> written_row, cigar |-> text,
                    features |-> r.features, old |-> sam_cols,
                    old_features |-> my_cigar.features, hit |-> hit,
                    sam_coords |-> sam_coords, exon_coords |-> exon_coords]
           IN  IF my_cigar.exc # "none"
               THEN /\ main_pc' = my_cigar.exc
                    /\ UNCHANGED outVars
               ELSE IF Len(hit.clip_seq) < args.clip_cutoff
               THEN /\ cand_pos' = at
                    /\ trail' = Append(trail, step("skipped", <<>>))
                    /\ UNCHANGED <<tracked_cigars, out_file, main_pc>>
               ELSE IF r.exc # "none"
               THEN /\ main_pc' = r.exc
                    /\ UNCHANGED outVars
               ELSE IF seen = <<>>
               THEN /\ tracked_cigars' = dict_set(tracked_cigars, sam_id, <<text>>)
                    /\ out_file' = Append(out_file, new_cols)
                    /\ cand_pos' = at
                    /\ trail' = Append(trail, step("first", <<new_cols>>))
                    /\ UNCHANGED main_pc
               ELSE IF \E k \in DOMAIN seen : seen[k] = text
               THEN /\ cand_pos' = at
                    /\ trail' = Append(trail, step("discarded", <<>>))
                    /\ UNCHANGED <<tracked_cigars, out_file, main_pc>>
               ELSE LET flagged == [new_cols EXCEPT !.flag =
                                       SecondaryFlag(main_strand, sam_coords.strand)]
                    IN  /\ tracked_cigars' =
                              dict_set(tracked_cigars, sam_id, Append(seen, text))
                        /\ out_file' = Append(out_file, flagged)
                        /\ cand_pos' = at
                        /\ trail' = Append(trail, step("secondary", <<flagged>>))
                        /\ UNCHANGED main_pc
    /\ UNCHANGED <<inputVars, exonVars, parseVars, matchVars, hitVars, loadVars>>
    /\ UNCHANGED <<bedVars, cigarVars, batchVars>>

\* the rows of the input appended to corrected.sam (662-670)
RECURSIVE Uncorrected(_, _)
Uncorrected(rows, corrected_ids) ==
    IF rows = <<>> THEN <<>>
    ELSE (IF Head(rows).id \notin corrected_ids THEN <<Head(rows)>> ELSE <<>>)
         \o Uncorrected(Tail(rows), corrected_ids)

\* the end of the loop at 544 and the merge (646-670)
Merge ==
    /\ main_pc = "correct"
    /\ ~HasCandidate
    /\ out_file' = out_file \o Uncorrected(in_sam, Keys(dict_sam_exons))
    /\ main_pc' = "done"
    /\ UNCHANGED <<tracked_cigars, cand_pos, trail>>
    /\ UNCHANGED <<inputVars, exonVars, parseVars, matchVars, hitVars, loadVars>>
    /\ UNCHANGED <<bedVars, cigarVars, batchVars>>

\* a read sequence of n bases
ReadSeq(n) == [k \in 1..n |-> BaseRun[((k - 1) % Len(BaseRun)) + 1]]

\* soft-clipped bases of a CIGAR
RECURSIVE SoftClipped(_)
SoftClipped(feats) ==
    IF feats = <<>> THEN 0
    ELSE (IF Head(feats).symbol = <<"S">> THEN Head(feats).size ELSE 0)
         + SoftClipped(Tail(feats))

\* the CIGAR of a row with m matched and s soft-clipped bases at its 3' end;
\* far: a further exon of 3 bases and an intron of 4 at its 5' end
RowCigar(strand_, far, m, s) ==
    IF strand_ = "+"
    THEN (IF far THEN <<"3", "=", "4", "N">> ELSE <<>>)
         \o str(m) \o <<"=">> \o str(s) \o <<"S">>
    ELSE str(s) \o <<"S">> \o str(m) \o <<"=">>
         \o (IF far THEN <<"4", "N", "3", "=">> ELSE <<>>)

\* the exons of one read in dict_sam_exons: one, two different ones, the same
\* one twice, and two with the first once more
CandidateShapes == {<<"T">>, <<"T", "U">>, <<"T", "T">>, <<"T", "U", "T">>}

ExonId(t) == [t |-> t, n |-> 3]

\* a TRUE line of hits.filtered.tsv as loaded at 485-490; i is the offset of
\* the match at 310, written with its sign flipped for a '-' row (413)
LoadedHit(t, strand_, i, L) ==
    [exon_id |-> ExonId(t), clip_seq |-> ReadSeq(L), exon_seq |-> ReadSeq(L),
     wiggle |-> IF strand_ = "+" THEN i ELSE -1 * i]

\* the downstream exon of a row that ends i bases past its exon, the intron
\* between the two exons being given
ExonCoords(strand_, sam_coords, i, intron) ==
    IF strand_ = "+"
    THEN [start |-> sam_coords.stop - i + intron,
          stop |-> sam_coords.stop - i + intron + 5]
    ELSE [start |-> sam_coords.start - i - intron - 5,
          stop |-> sam_coords.start - i - intron]

\* the state at line 540 for one read with its TRUE hits: the exons T#3 and
\* U#3 lie after the same exon end, U#3 behind the longest intron
InitCorrect ==
    /\ BedIdle /\ CigarIdle /\ BatchIdle
    /\ as_script \in BOOLEAN
    /\ \E W \in 0..MaxWiggle, cutoff \in 0..MaxCutoff :
          args = [wiggle |-> W, clip_cutoff |-> cutoff]
    /\ \E strand_ \in {"+", "-"}, secondary \in {0, 256}, far \in BOOLEAN,
          m \in 1..MaxMatch, s \in 1..MaxSoftClip :
          in_sam = <<SamRow(<<[tag |-> "name", val |-> "r1"],
                              [tag |-> "3Clip", val |-> s]>>,
                            secondary + (IF strand_ = "-" THEN 16 ELSE 0), 101,
                            RowCigar(strand_, far, m, s),
                            ReadSeq(m + s + (IF far THEN 3 ELSE 0)))>>
    /\ bed8 = <<convert2bed(in_sam[1])>>
    /\ toga = <<>> /\ exon_seqs = <<>>
    /\ ExonBlank /\ ParseBlank /\ HitBlank
    /\ main_strand \in {"+", "-"}
    /\ matching_tuples = <<>> /\ hits = <<>>
    /\ LET id == in_sam[1].id
           b  == bed8[1]
           sam_coords == [start |-> b.start, stop |-> b.stop, strand |-> b.strand]
           soft == SoftClipped(Cigar_init(in_sam[1].cigar).features)
       IN  /\ sam_indexed = (id :> in_sam[1])
           /\ sam_stops_indexed = (id :> sam_coords)
           /\ \E shape \in CandidateShapes :
                 /\ dict_sam_exons =
                       <<[key |-> id,
                          val |-> [k \in DOMAIN shape |-> ExonId(shape[k])]]>>
                 /\ \E i \in (-args.wiggle)..args.wiggle,
                       L \in (args.clip_cutoff + 1)..MaxClipSeq,
                       intron \in 1..MaxIntron :
                       /\ L <= soft + Abs(i)
                       /\ map_sam_to_exon =
                             [key \in {<<id, ExonId(shape[k])>> : k \in DOMAIN shape}
                                |-> LoadedHit(key[2].t, b.strand, i, L)]
                       /\ indexed_exon_coords =
                             [e \in {ExonId(shape[k]) : k \in DOMAIN shape}
                                |-> IF e.t = "T"
                                    THEN ExonCoords(b.strand, sam_coords, i, intron)
                                    ELSE ExonCoords(b.strand, sam_coords, i,
                                                    MaxIntron)]
    /\ OutBlank
    /\ main_pc = "correct"

NextCorrect == CorrectCandidate \/ Merge

SpecCorrect == InitCorrect /\ [][NextCorrect]_vars

\* a candidate for which the rewrite ran: its row was written or discarded
Rewritten(step) == step.outcome \in {"first", "secondary", "discarded"}

\* C11: a '+' candidate with offset i, dist = exon start - read stop and a
\* compared clip of L bases has as its corrected CIGAR the original operations
\* with the one before the trailing soft clip shortened by i, then N of
\* dist + i, then = of L, then the soft clip shortened by L - i; the earlier
\* operations and the mapping position of the row are the original ones.
C11_PlusRewrite ==
    \A k \in DOMAIN trail :
        LET step == trail[k]
            f    == step.old_features
            n    == Len(f)
            i    == step.hit.wiggle
            L    == Len(step.hit.clip_seq)
            dist == step.exon_coords.start - step.sam_coords.stop
        IN  (Rewritten(step) /\ step.sam_coords.strand = "+"
             /\ n >= 2 /\ f[n].symbol = <<"S">>)
            => /\ step.features =
                     SubSeq(f, 1, n - 2)
                     \o <<[symbol |-> f[n - 1].symbol, size |-> f[n - 1].size - i],
                          [symbol |-> <<"N">>, size |-> dist + i],
                          [symbol |-> <<"=">>, size |-> L],
                          [symbol |-> <<"S">>, size |-> f[n].size - (L - i)]>>
               /\ step.cigar = Cigar_str(step.features)
               /\ step.row # <<>>
                  => /\ step.row[1].cigar = step.cigar
                     /\ step.row[1].pos = step.old.pos

C11_Witness ==
    \E k \in DOMAIN trail :
        /\ trail[k].sam_coords.strand = "+"
        /\ trail[k].outcome = "first"
        /\ trail[k].hit.wiggle = 1
        /\ Len(trail[k].hit.clip_seq) = 2
        /\ Len(trail[k].old_features) = 4

HasBit(flag, bit) == (flag \div bit) % 2 = 1

\* the rows written for a read, in order
RECURSIVE RowsOf(_, _)
RowsOf(steps, sam_id) ==
    IF steps = <<>> THEN <<>>
    ELSE (IF Head(steps).sam_id = sam_id THEN Head(steps).row ELSE <<>>)
         \o RowsOf(Tail(steps), sam_id)

\* the first candidate of a read is written with the flag of the read, a later
\* one is written only with a CIGAR not yet written for the read, and then
\* with bit 0x100
OrderedEmission ==
    \A k \in DOMAIN trail :
        LET step    == trail[k]
            earlier == RowsOf(SubSeq(trail, 1, k - 1), step.sam_id)
        IN  Rewritten(step)
            => IF earlier = <<>>
               THEN /\ step.row # <<>>
                    /\ step.row[1].flag = step.old.flag
                    /\ step.row[1].cigar = step.cigar
               ELSE IF \E j \in DOMAIN earlier : earlier[j].cigar = step.cigar
               THEN step.row = <<>>
               ELSE /\ step.row # <<>>
                    /\ step.row[1].cigar = step.cigar
                    /\ HasBit(step.row[1].flag, 256)

\* C12: the candidates of a read are written in order, first with the flag of
\* the read, later ones only with a new CIGAR and with bit 0x100; the rows
\* written for a read have pairwise distinct CIGARs and exactly one of them
\* lacks bit 0x100.
C12_DedupAndSecondary ==
    /\ OrderedEmission
    /\ \A d \in DOMAIN dict_sam_exons :
          LET rows == RowsOf(trail, dict_sam_exons[d].key)
          IN  /\ \A a, b \in DOMAIN rows : rows[a].cigar = rows[b].cigar => a = b
              /\ rows # <<>>
                 => Cardinality({a \in DOMAIN rows : ~HasBit(rows[a].flag, 256)}) = 1

\* the part of C12 that holds for every flag of the read
C12_OrderedDistinct ==
    /\ OrderedEmission
    /\ \A d \in DOMAIN dict_sam_exons :
          LET rows == RowsOf(trail, dict_sam_exons[d].key)
          IN  /\ \A a, b \in DOMAIN rows : rows[a].cigar = rows[b].cigar => a = b
              /\ (rows # <<>> /\ ~HasBit(sam_indexed[dict_sam_exons[d].key].flag, 256))
                 => Cardinality({a \in DOMAIN rows : ~HasBit(rows[a].flag, 256)}) = 1

\* C16: every operation of every corrected CIGAR written has a length of at
\* least 1.
C16_PositiveLengths ==
    \A k \in DOMAIN trail :
        (trail[k].row # <<>>
         /\ \A j \in DOMAIN trail[k].old_features :
               trail[k].old_features[j].size >= 1)
        => \A j \in DOMAIN trail[k].features : trail[k].features[j].size >= 1

\* C21: a '-' candidate with stored offset w (of either sign), dist = read
\* start - exon stop and a compared clip of L bases has as its corrected CIGAR
\* the leading soft clip shortened by L - w, then = of L, then N of dist + w,
\* then the former second operation shortened by w, then the remaining
\* operations unchanged; the mapping position of a written row is the
\* original one minus dist + L.
C21_MinusMirror ==
    \A k \in DOMAIN trail :
        LET step == trail[k]
            f    == step.old_features
            n    == Len(f)
            w    == step.hit.wiggle
            L    == Len(step.hit.clip_seq)
            dist == step.sam_coords.start - step.exon_coords.stop
        IN  (Rewritten(step) /\ step.sam_coords.strand = "-"
             /\ n >= 2 /\ f[1].symbol = <<"S">>)
            => /\ step.features =
                     <<[symbol |-> <<"S">>, size |-> f[1].size - (L - w)],
                       [symbol |-> <<"=">>, size |-> L],
                       [symbol |-> <<"N">>, size |-> dist + w],
                       [symbol |-> f[2].symbol, size |-> f[2].size - w]>>
                     \o SubSeq(f, 3, n)
               /\ step.row # <<>>
                  => /\ step.row[1].cigar = Cigar_str(step.features)
                     /\ step.row[1].pos = step.old.pos - (dist + L)

\* the part of C21 that holds: the mirror edit for a stored offset w >= 0
C21_MinusMirrorForward ==
    \A k \in DOMAIN trail :
        LET step == trail[k]
            f    == step.old_features
            n    == Len(f)
            w    == step.hit.wiggle
            L    == Len(step.hit.clip_seq)
            dist == step.sam_coords.start - step.exon_coords.stop
        IN  (Rewritten(step) /\ step.sam_coords.strand = "-" /\ w >= 0
             /\ n >= 2 /\ f[1].symbol = <<"S">>)
            => /\ step.features =
                     <<[symbol |-> <<"S">>, size |-> f[1].size - (L - w)],
                       [symbol |-> <<"=">>, size |-> L],
                       [symbol |-> <<"N">>, size |-> dist + w],
                       [symbol |-> f[2].symbol, size |-> f[2].size - w]>>
                     \o SubSeq(f, 3, n)
               /\ step.row # <<>>
                  => /\ step.row[1].cigar = Cigar_str(step.features)
                     /\ step.row[1].pos = step.old.pos - (dist + L)

\* bases of the read a CIGAR accounts for: M, =, X, I, S
RECURSIVE ReadLen(_)
ReadLen(feats) ==
    IF feats = <<>> THEN 0
    ELSE (IF Head(feats).symbol \in {<<"M">>, <<"=">>, <<"X">>, <<"I">>, <<"S">>}
          THEN Head(feats).size ELSE 0) + ReadLen(Tail(feats))

\* the operation at the 3' end of the read is a soft clip and the operation
\* next to it is one of the read
ClippedEnd(strand_, feats) ==
    LET n    == Len(feats)
        read == {<<"M">>, <<"=">>, <<"X">>, <<"I">>, <<"S">>}
    IN  /\ n >= 2
        /\ IF strand_ = "+"
           THEN feats[n].symbol = <<"S">> /\ feats[n - 1].symbol \in read
           ELSE feats[1].symbol = <<"S">> /\ feats[2].symbol \in read

\* C28: for every candidate whose CIGAR is rewritten, on either strand and
\* for every offset, the operations rewritten are those of the CIGAR of the
\* read in the input, also when an earlier candidate of the read has been
\* rewritten, and the corrected CIGAR accounts for as many bases of the read
\* (M, =, X, I, S) as the original one.
C28_ReadLengthConserved ==
    \A k \in DOMAIN trail :
        LET step == trail[k]
        IN  Rewritten(step)
            => /\ step.old_features =
                     Cigar_init(sam_indexed[step.sam_id].cigar).features
               /\ \E j \in DOMAIN in_sam :
                     /\ in_sam[j].id = step.sam_id
                     /\ in_sam[j].cigar = sam_indexed[step.sam_id].cigar
               /\ ClippedEnd(step.sam_coords.strand, step.old_features)
                  => /\ ReadLen(step.features) = ReadLen(step.old_features)
                     /\ step.cigar = Cigar_str(step.features)

\* C28's case: the second candidate of a '-' read, with a negative stored
\* offset, written as a further row
C28_Witness ==
    \E k \in DOMAIN trail :
        /\ k >= 2
        /\ trail[k].sam_id = trail[k - 1].sam_id
        /\ trail[k - 1].outcome = "first"
        /\ trail[k].outcome = "secondary"
        /\ trail[k].sam_coords.strand = "-"
        /\ trail[k].hit.wiggle = -1
        /\ Len(trail[k].old_features) = 4
        /\ ClippedEnd("-", trail[k].old_features)

\* flag with the bit set
WithBit(flag, bit) == IF HasBit(flag, bit) THEN flag ELSE flag + bit

\* C29: a row written as a further correction of a read has the flag of the
\* read in the input with bit 0x100 added; its bit 0x10 is set exactly when
\* the read is on the '-' strand.
C29_SecondaryKeepsFlag ==
    \A k \in DOMAIN trail :
        LET step == trail[k]
        IN  step.outcome = "secondary"
            => /\ step.row[1].flag = WithBit(step.old.flag, 256)
               /\ HasBit(step.row[1].flag, 16)
                  <=> step.sam_coords.strand = "-"

\* what holds of the flag: it is 256, plus 16 when the last line of
\* internal_exons.bed is on '-'; this is the flag of C29 when that line is on
\* the strand of the read and the read has no bit other than 0x10 and 0x100
C29_SecondaryFlagOfLastExon ==
    \A k \in DOMAIN trail :
        LET step == trail[k]
        IN  step.outcome = "secondary"
            => /\ step.row[1].flag = 256 + (IF main_strand = "-" THEN 16 ELSE 0)
               /\ main_strand = step.sam_coords.strand
                  => step.row[1].flag = WithBit(step.old.flag, 256)

\* the read is in a list of stop_pos_dict
Registered(id) ==
    \E key \in DOMAIN stop_pos_dict :
        \E j \in DOMAIN stop_pos_dict[key] : stop_pos_dict[key][j] = id

\* the window of C30 for a row with clip c, poly-A p and sequence seq: c + W
\* bases, ending p bases before the end of seq on '+', starting p bases after
\* its start on '-'
ClipWindow(r, c, p, W) ==
    LET n == Len(r.seq)
    IN  IF HasBit(r.flag, 16)
        THEN SubSeq(r.seq, p + 1, p + c + W)
        ELSE SubSeq(r.seq, n - p - c - W + 1, n - p)

\* C30: a read with 3Clip value c >= cutoff, PolyA value p (0 without the
\* token) and a sequence of at least c + p + W bases has as its stored window
\* the c + W bases that end p bases before the end of the sequence on '+' and
\* start p bases after its start on '-', and with c + W > 0 it is registered
\* in stop_pos_dict.
C30_ClipWindow ==
    main_pc = "match"
    => \A k \in DOMAIN in_sam :
          LET r == in_sam[k]
              u == UnwrapLoop(r.id, -1, 0)
          IN  (u.clip >= args.clip_cutoff
               /\ Len(r.seq) >= u.clip + u.poly_a + args.wiggle)
              => /\ r.id \in DOMAIN clip_dict
                 /\ clip_dict[r.id] = ClipWindow(r, u.clip, u.poly_a, args.wiggle)
                 /\ Len(clip_dict[r.id]) = u.clip + args.wiggle
                 /\ u.clip + args.wiggle > 0 => Registered(r.id)

\* what holds: the same for the rows with flag 16 and for the rows with bit
\* 0x10 clear and a PolyA value above 0
C30_ClipWindowWithPolyA ==
    main_pc = "match"
    => \A k \in DOMAIN in_sam :
          LET r == in_sam[k]
              u == UnwrapLoop(r.id, -1, 0)
          IN  (u.clip >= args.clip_cutoff
               /\ Len(r.seq) >= u.clip + u.poly_a + args.wiggle
               /\ \/ r.flag = 16
                  \/ ~HasBit(r.flag, 16) /\ u.poly_a > 0)
              => /\ r.id \in DOMAIN clip_dict
                 /\ clip_dict[r.id] = ClipWindow(r, u.clip, u.poly_a, args.wiggle)
                 /\ Len(clip_dict[r.id]) = u.clip + args.wiggle
                 /\ u.clip + args.wiggle > 0 => Registered(r.id)

\* a forward row without poly-A is given the empty window and is not
\* registered
C30_NoPolyANoWindow ==
    main_pc = "match"
    => \A k \in DOMAIN in_sam :
          LET r == in_sam[k]
              u == UnwrapLoop(r.id, -1, 0)
          IN  (u.clip >= args.clip_cutoff /\ r.flag # 16 /\ u.poly_a = 0)
              => /\ clip_dict[r.id] = <<>>
                 /\ ~Registered(r.id)

\* ------------------------------------------- correct_minimap: main, in order
\* transcript_dict[my_id] of filter_internal_exons (106-115): start and stop
\* of the BED12 row, which span its blocks
TranscriptSpan(rows, id) ==
    LET own == {k \in DOMAIN rows : rows[k].id = id}
    IN  [start |-> CHOOSE a \in {rows[k].start : k \in own} :
                      \A k \in own : a <= rows[k].start,
         stop  |-> CHOOSE b \in {rows[k].stop : k \in own} :
                      \A k \in own : b >= rows[k].stop]

\* the loop over query_annotation.bed6 (125-145)
RECURSIVE IndexLoop(_, _, _, _, _)
IndexLoop(rows, k, current_id, current_count, files) ==
    IF k > Len(rows) THEN files
    ELSE LET cols    == rows[k]
             count   == IF cols.id # current_id THEN 0 ELSE current_count
             span    == TranscriptSpan(rows, cols.id)
             indexed_ == [cols EXCEPT !.id = [t |-> cols.id, n |-> count]]
         IN  IndexLoop(rows, k + 1, cols.id, count + 1,
                       [all |-> Append(files.all, indexed_),
                        internal |->
                            IF cols.start # span.start /\ cols.stop # span.stop
                            THEN Append(files.internal, indexed_)
                            ELSE files.internal])

filter_internal_exons(rows) ==
    IndexLoop(rows, 1, <<"">>, 0, [all |-> <<>>, internal |-> <<>>])

\* a dict filled from the rows of a file in order: the last row of a key stays
RECURSIVE LastByKey(_, _)
LastByKey(rows, dict) ==
    IF rows = <<>> THEN dict
    ELSE LastByKey(Tail(rows), dict_set(dict, Head(rows).id, Head(rows)))

\* the offsets i of range(-wiggle, wiggle + 1) from i on, for one exon (310-332)
RECURSIVE WiggleLoop(_, _, _, _, _)
WiggleLoop(cols, i, W, spd, tuples) ==
    IF i > W THEN tuples
    ELSE LET stop_ == IF cols.strand = "+" THEN cols.stop ELSE cols.start
             key   == PosKey(cols.chrom, stop_ + i, cols.strand)
         IN  WiggleLoop(cols, i + 1, W, spd,
                        IF key \in DOMAIN spd /\ spd[key] # <<>>
                        THEN Append(tuples,
                                    [reads  |-> spd[key],
                                     coords |-> <<cols.chrom, cols.start, cols.stop>>,
                                     strand |-> cols.strand,
                                     my_id  |-> cols.id,
                                     i      |-> i])
                        ELSE tuples)

\* the loop over internal_exons.bed (298-332): the tuples, and the value the
\* variable strand is left with
RECURSIVE ExonLoop(_, _, _, _)
ExonLoop(rows, W, spd, acc) ==
    IF rows = <<>> THEN acc
    ELSE ExonLoop(Tail(rows), W, spd,
                  [strand |-> Head(rows).strand,
                   tuples |-> WiggleLoop(Head(rows), -W, W, spd, acc.tuples)])

\* hits (351-356): one line per tuple and read
RECURSIVE HitLines(_, _)
HitLines(tuples, cd) ==
    IF tuples = <<>> THEN <<>>
    ELSE LET t == Head(tuples)
         IN  [k \in DOMAIN t.reads |->
                 [read |-> t.reads[k], coords |-> t.coords, strand |-> t.strand,
                  my_id |-> t.my_id, clip |-> cd[t.reads[k]], i |-> t.i]]
             \o HitLines(Tail(tuples), cd)

\* "".join(components)
RECURSIVE Concat(_)
Concat(components) ==
    IF components = <<>> THEN "" ELSE Head(components) \o Concat(Tail(components))

\* target_id (362-376): upstream_id.split("#") without its last element, then
\* "#" and the count of the next exon, joined without a separator
PrecursorId(upstream_id, strand_) ==
    LET components == upstream_id.t
        old_count  == upstream_id.n
    IN  [t |-> <<Concat(components)>>,
         n |-> IF strand_ = "+" THEN old_count + 1 ELSE old_count - 1]

\* exon_precursor.bed (358-383): the exon after each hit's exon; used_exons is
\* asked for the id and told the id with "_" appended, so every row is written
RECURSIVE Precursor(_, _, _)
Precursor(hs, exons_by_id, acc) ==
    IF hs = <<>> THEN [exc |-> "none", rows |-> acc]
    ELSE LET target_id == PrecursorId(Head(hs).my_id, Head(hs).strand)
         IN  IF target_id \notin DOMAIN exons_by_id
             THEN [exc |-> "KeyError", rows |-> acc]
             ELSE Precursor(Tail(hs), exons_by_id,
                            Append(acc, exons_by_id[target_id]))

\* exon_seqs.fa as twoBitToFa writes it for rows of at most 50 bases: a header
\* line and one line of sequence per row
RECURSIVE TwoBitToFa(_, _)
TwoBitToFa(rows, genome) ==
    IF rows = <<>> THEN <<>>
    ELSE <<[header |-> TRUE, text |-> Head(rows).id],
           [header |-> FALSE, text |-> genome[Head(rows).id]]>>
         \o TwoBitToFa(Tail(rows), genome)

\* the loop of parse_named_fasta over the lines (159-166); the last line of
\* the file is taken for a header like a line that starts with ">"
RECURSIVE FastaLoop(_, _, _, _, _)
FastaLoop(lines, x, current_id, current_seq, dict) ==
    IF x > Len(lines) THEN dict
    ELSE LET line == lines[x]
         IN  IF line.header \/ x = Len(lines)
             THEN FastaLoop(lines, x + 1, <<line.text>>, <<>>,
                            IF current_id # <<>>
                            THEN dict_set(dict, current_id[1], current_seq)
                            ELSE dict)
             ELSE FastaLoop(lines, x + 1, current_id,
                            current_seq \o line.text, dict)

parse_named_fasta(lines) == FastaLoop(lines, 1, <<>>, <<>>, <<>>)

\* the loop over hits.filtered.tsv (475-490)
RECURSIVE LoadLoop(_, _)
LoadLoop(lines, acc) ==
    IF lines = <<>> THEN acc
    ELSE LET hit == Head(lines).hit
         IN  LoadLoop(Tail(lines),
                IF Head(lines).mark # "TRUE" THEN acc
                ELSE [exons |->
                         ordered_set(acc.exons, hit.origin,
                             IF hit.origin \in Keys(acc.exons)
                             THEN Append(ordered_get(acc.exons, hit.origin),
                                         hit.toga_exon)
                             ELSE <<hit.toga_exon>>),
                      map |->
                         dict_set(acc.map, <<hit.origin, hit.toga_exon>>,
                                  [exon_id  |-> hit.toga_exon,
                                   clip_seq |-> hit.clip_seq,
                                   exon_seq |-> hit.toga_seq,
                                   wiggle   |-> hit.wiggle_shift])])

\* sam_stops_indexed (506-515)
RECURSIVE StopsLoop(_, _, _)
StopsLoop(rows, ids, dict) ==
    IF rows = <<>> THEN dict
    ELSE StopsLoop(Tail(rows), ids,
                   IF Head(rows).id \in ids
                   THEN dict_set(dict, Head(rows).id,
                                 [start |-> Head(rows).start,
                                  stop |-> Head(rows).stop,
                                  strand |-> Head(rows).strand])
                   ELSE dict)

\* filter_internal_exons(args.toga, tmp_dir) (248)
FilterInternalExons ==
    /\ main_pc = "filter"
    /\ indexed_exons' = filter_internal_exons(toga).all
    /\ internal_exons' = filter_internal_exons(toga).internal
    /\ main_pc' = "parse_sam"
    /\ UNCHANGED <<inputVars, parseVars, matchVars, hitVars, loadVars, outVars>>
    /\ UNCHANGED <<bedVars, cigarVars, batchVars>>

\* matching the exon ends with the read ends, and hits (283-356)
MatchExons ==
    /\ main_pc = "match"
    /\ LET r == ExonLoop(internal_exons, args.wiggle, stop_pos_dict,
                         [strand |-> main_strand, tuples |-> <<>>])
       IN  /\ main_strand' = r.strand
           /\ matching_tuples' = r.tuples
           /\ hits' = HitLines(r.tuples, clip_dict)
    /\ main_pc' = "fetch"
    /\ UNCHANGED <<inputVars, exonVars, parseVars, hitVars, loadVars, outVars>>
    /\ UNCHANGED <<bedVars, cigarVars, batchVars>>

\* exon_precursor.bed, twoBitToFa and parse_named_fasta (358-391)
FetchExonSequences ==
    /\ main_pc = "fetch"
    /\ LET r == Precursor(hits, LastByKey(indexed_exons, <<>>), <<>>)
       IN  /\ exon_precursor' = r.rows
           /\ IF r.exc # "none"
              THEN /\ main_pc' = r.exc
                   /\ UNCHANGED exons_seqs_dict
              ELSE /\ exons_seqs_dict' =
                         parse_named_fasta(TwoBitToFa(r.rows, exon_seqs))
                   /\ main_pc' = "hits_list"
    /\ UNCHANGED <<inputVars, exonVars, parseVars, matchVars, loadVars, outVars>>
    /\ UNCHANGED <<hits_list, hits_filtered>>
    /\ UNCHANGED <<bedVars, cigarVars, batchVars>>

\* loading hits.filtered.tsv, the exons, the alignments and their ends (473-515)
LoadHits ==
    /\ main_pc = "load"
    /\ LET r == LoadLoop(hits_filtered, [exons |-> <<>>, map |-> <<>>])
           by_id == LastByKey(indexed_exons, <<>>)
       IN  /\ dict_sam_exons' = r.exons
           /\ map_sam_to_exon' = r.map
           /\ indexed_exon_coords' =
                 [e \in DOMAIN by_id |->
                     [start |-> by_id[e].start, stop |-> by_id[e].stop]]
           /\ sam_indexed' = LastByKey(in_sam, <<>>)
           /\ sam_stops_indexed' = StopsLoop(bed8, Keys(r.exons), <<>>)
    /\ main_pc' = "correct"
    /\ UNCHANGED <<inputVars, exonVars, parseVars, matchVars, hitVars, outVars>>
    /\ UNCHANGED <<bedVars, cigarVars, batchVars>>

\* an exon row of query_annotation.bed6
ExonRow(t, strand_, start_, stop_) ==
    [chrom |-> "chr1", start |-> start_, stop |-> stop_, id |-> t,
     strand |-> strand_]

\* transcripts of three exons that share the exon [120, 130); the exon after
\* it in transcription order lies at another place for U than for T and V.
\* A transcript id is given split at "#": <<"A", "B">> is the id "A#B".
Transcript(t, strand_) ==
    IF strand_ = "+"
    THEN <<ExonRow(t, "+", 100, 110), ExonRow(t, "+", 120, 130),
           IF t = <<"T">> THEN ExonRow(t, "+", 140, 150)
           ELSE ExonRow(t, "+", 150, 160)>>
    ELSE <<IF t = <<"T">> THEN ExonRow(t, "-", 100, 110)
           ELSE ExonRow(t, "-", 90, 100),
           ExonRow(t, "-", 120, 130), ExonRow(t, "-", 140, 150)>>

Annotations(strand_) ==
    {Transcript(<<"T">>, strand_),
     Transcript(<<"T">>, strand_) \o Transcript(<<"U">>, strand_),
     Transcript(<<"T">>, strand_) \o Transcript(<<"U">>, strand_)
        \o Transcript(<<"V">>, strand_),
     Transcript(<<"T">>, strand_) \o Transcript(<<"A", "B">>, strand_)}

\* what twoBitToFa delivers for an exon: the exons after the shared one begin
\* with AC
Genome(rows) ==
    [e \in {rows[k].id : k \in DOMAIN rows} |->
        IF e.n = 1 THEN <<"G", "G", "G">>
        ELSE IF e.t = <<"T">> THEN <<"A", "C", "G">> ELSE <<"A", "C", "T">>]

\* the bases of the 3' clip of a read as the alignment row holds them
ClipChars(flag) ==
    IF HasBit(flag, 16) THEN {"G", "T", "N"} ELSE {"A", "C", "N"}

ClipSeqs(flag, c) == {w \in SeqsUpTo(ClipChars(flag), c) : Len(w) = c}

Repeat(char, n) == [k \in 1..n |-> char]

\* an alignment row of a read that covers the shared exon up to e bases past
\* its end, with the clip and p bases of poly-A tail soft-clipped
EndingRead(id, flag, e, clip, p) ==
    LET soft == IF Len(clip) + p = 0 THEN <<>> ELSE str(Len(clip) + p) \o <<"S">>
    IN  IF HasBit(flag, 16)
        THEN SamRow(id, flag, 121 + e, soft \o str(10 - e) \o <<"=">>,
                    Repeat("T", p) \o clip \o <<"T">> \o Repeat("C", 9 - e))
        ELSE SamRow(id, flag, 121, str(10 + e) \o <<"=">> \o soft,
                    Repeat("G", 9 + e) \o <<"A">> \o clip \o Repeat("A", p))

\* a row of a read without a 3Clip token
PlainRead ==
    SamRow(<<[tag |-> "name", val |-> "r2"]>>, 0, 121, <<"1", "0", "=">>,
           Repeat("G", 10))

InitMain ==
    /\ BedIdle /\ CigarIdle /\ BatchIdle
    /\ as_script \in BOOLEAN
    /\ args \in [wiggle : 0..MaxWiggle, clip_cutoff : 0..MaxCutoff]
    /\ \E flag \in {0, 16, 256, 272}, e \in -1..1, p \in 0..MaxPolyA,
          c \in -1..MaxClip :
          \E clip \in ClipSeqs(flag, IF c < 0 THEN 0 ELSE c) :
             LET id == <<[tag |-> "name", val |-> "r1"]>>
                       \o (IF c < 0 THEN <<>> ELSE <<[tag |-> "3Clip", val |-> c]>>)
                       \o <<[tag |-> "PolyA", val |-> p]>>
             IN  in_sam \in {<<EndingRead(id, flag, e, clip, p)>>,
                             <<EndingRead(id, flag, e, clip, p), PlainRead>>}
    /\ bed8 = [k \in DOMAIN in_sam |-> convert2bed(in_sam[k])]
    /\ \E strand_ \in {"+", "-"} : toga \in Annotations(strand_)
    /\ exon_seqs = Genome(filter_internal_exons(toga).all)
    /\ ExonBlank /\ ParseBlank /\ MatchBlank /\ HitBlank /\ LoadBlank /\ OutBlank
    /\ main_pc = "filter"

NextMain ==
    \/ FilterInternalExons
    \/ ParseSamIntoDicts
    \/ MatchExons
    \/ FetchExonSequences
    \/ BuildHitsList
    \/ Compare
    \/ LoadHits
    \/ CorrectCandidate
    \/ Merge

SpecMain == InitMain /\ [][NextMain]_vars

\* the read ids with a TRUE line in hits.filtered.tsv
TrueIds ==
    {hits_filtered[k].hit.origin :
        k \in {j \in DOMAIN hits_filtered : hits_filtered[j].mark = "TRUE"}}

Count(rows, r) == Cardinality({k \in DOMAIN rows : rows[k] = r})

\* main has returned or was ended by an exception
Ended ==
    main_pc \notin {"idle", "filter", "parse_sam", "match", "fetch", "hits_list",
                    "compare", "load", "correct"}

\* what C13 says of the output
PassedThrough ==
    \A k \in DOMAIN in_sam :
        LET r == in_sam[k]
        IN  /\ UnwrapLoop(r.id, -1, 0).clip < args.clip_cutoff
               => r.id \notin TrueIds
            /\ IF r.id \notin TrueIds
               THEN Count(out_file, r) = Count(in_sam, r)
               ELSE /\ RowsOf(trail, r.id) # <<>>
                    /\ \A j \in DOMAIN RowsOf(trail, r.id) :
                          Count(out_file, RowsOf(trail, r.id)[j]) = 1
                    /\ Count(out_file, r) = 0

\* C13: when main has ended, every input row whose read has no TRUE hit, a
\* read with a 3Clip value below clip_cutoff or without a 3Clip token among
\* them, is in the output once and unchanged, and a read with a TRUE hit is in
\* the output as corrected rows, at least one, and not in its original form.
C13_PassThrough == Ended => PassedThrough

\* the part of C13 that holds: the output of a run that reaches the end of main
C13_PassThroughOfCompleteRun == main_pc = "done" => PassedThrough

\* ------------------------- correct_minimap: matching read ends and exon ends
\* two reads that end at or next to the end of the shared internal exon: the
\* first with every 3Clip and PolyA value, the second with one clipped base
\* and one base of poly-A tail
InitMatch ==
    /\ BedIdle /\ CigarIdle /\ BatchIdle
    /\ as_script = FALSE
    /\ args \in [wiggle : 0..MaxWiggle, clip_cutoff : 0..MaxCutoff]
    /\ \E flag1 \in {0, 16}, flag2 \in {0, 16}, e1 \in -1..1, e2 \in -1..1,
          c \in 0..MaxClip, p \in 0..MaxPolyA :
          in_sam = <<EndingRead(<<[tag |-> "name", val |-> "r1"],
                                  [tag |-> "3Clip", val |-> c],
                                  [tag |-> "PolyA", val |-> p]>>,
                                flag1, e1, Repeat("A", c), p),
                     EndingRead(<<[tag |-> "name", val |-> "r3"],
                                  [tag |-> "3Clip", val |-> 1],
                                  [tag |-> "PolyA", val |-> 1]>>,
                                flag2, e2, <<"A">>, 1)>>
    /\ bed8 = [k \in DOMAIN in_sam |-> convert2bed(in_sam[k])]
    /\ \E strand_ \in {"+", "-"} : toga \in Annotations(strand_)
    /\ exon_seqs = Genome(filter_internal_exons(toga).all)
    /\ ExonBlank /\ ParseBlank /\ MatchBlank /\ HitBlank /\ LoadBlank /\ OutBlank
    /\ main_pc = "filter"

NextMatch == FilterInternalExons \/ ParseSamIntoDicts \/ MatchExons

SpecMatch == InitMatch /\ [][NextMatch]_vars

\* the 3' end of a BED row: its stop on '+', its start on '-'
ThreePrimeEnd(r) == IF r.strand = "+" THEN r.stop ELSE r.start

\* the triples (row of minimap.sam.bed8, row of internal_exons.bed, i) that
\* C24 asks a candidate for
Matching ==
    {t \in (DOMAIN bed8) \X (DOMAIN internal_exons)
              \X ((-args.wiggle)..args.wiggle) :
        LET b == bed8[t[1]]
            x == internal_exons[t[2]]
        IN  /\ b.id \in DOMAIN clip_dict
            /\ clip_dict[b.id] # <<>>
            /\ b.chrom = x.chrom
            /\ b.strand = x.strand
            /\ ThreePrimeEnd(b) = ThreePrimeEnd(x) + t[3]}

\* C24: the lines of hits are exactly the triples (read, internal exon, i) with
\* -W <= i <= W, a non-empty stored clip window of the read, and the 3' end of
\* the read equal to the 3' end of the exon plus i on the same chromosome and
\* strand, each once: reads that share an end position each have their line,
\* and a read has a line for every internal exon it matches.
C24_CandidateMatching ==
    main_pc = "fetch"
    => /\ {<<hits[k].read, hits[k].my_id, hits[k].i>> : k \in DOMAIN hits}
          = {<<bed8[t[1]].id, internal_exons[t[2]].id, t[3]>> : t \in Matching}
       /\ Len(hits) = Cardinality(Matching)

\* C24's case: two reads that end at the same position one base away from
\* the end of the internal exons of two transcripts
C24_Witness ==
    /\ main_pc = "fetch"
    /\ \E j, k, m \in DOMAIN hits :
          /\ hits[j].read # hits[k].read
          /\ hits[j].my_id = hits[k].my_id
          /\ hits[m].read = hits[j].read
          /\ hits[m].my_id # hits[j].my_id
          /\ hits[j].i # 0

\* exon_precursor.bed has been written, or the loop writing it has raised
Fetched ==
    main_pc \notin {"idle", "filter", "parse_sam", "match", "fetch"}

\* the exon after the exon of a hit in transcription order: T#(n+1) or T#(n-1)
NextInTranscript(hit) ==
    [t |-> hit.my_id.t,
     n |-> IF hit.strand = "+" THEN hit.my_id.n + 1 ELSE hit.my_id.n - 1]

\* what C23 says of the hits in a set of positions of hits
DownstreamUsed(ks) ==
    \A k \in ks :
        LET want == NextInTranscript(hits[k])
        IN  /\ \E j \in DOMAIN indexed_exons : indexed_exons[j].id = want
            /\ k \in DOMAIN exon_precursor
            /\ exon_precursor[k].id = want
            /\ k \in DOMAIN hits_list => hits_list[k].toga_exon = want

\* C23: for every hit of an internal exon T#n the exon whose sequence is
\* fetched and the exon the clip is compared with are T#(n+1) on '+' and
\* T#(n-1) on '-', and that exon is in indexed_exons.bed; a hit whose exon is
\* not found ends main with an exception.
C23_DownstreamLookup ==
    Fetched
    => /\ DownstreamUsed(DOMAIN hits)
       /\ Len(exon_precursor) < Len(hits) => main_pc = "KeyError"

\* the part of C23 that holds: transcript ids without "#"
C23_DownstreamLookupPlainIds ==
    (Fetched /\ \A j \in DOMAIN toga : Len(toga[j].id) = 1)
    => /\ DownstreamUsed(DOMAIN hits)
       /\ Len(exon_precursor) < Len(hits) => main_pc = "KeyError"

\* the sequence lines from line k on, up to the next header or the end
RECURSIVE SequenceFrom(_, _)
SequenceFrom(lines, k) ==
    IF k > Len(lines) \/ lines[k].header THEN <<>>
    ELSE lines[k].text \o SequenceFrom(lines, k + 1)

\* the header lines of a file whose name no later header line has
LastHeaders(lines) ==
    {h \in DOMAIN lines :
        /\ lines[h].header
        /\ \A g \in DOMAIN lines :
              (lines[g].header /\ lines[g].text = lines[h].text) => g <= h}

\* exon_seqs.fa has been written and parsed
Parsed_fa == Fetched /\ Len(exon_precursor) = Len(hits)

\* C25: the dict parse_named_fasta returns for exon_seqs.fa has, for every
\* header line of the file, the name as a key and as its value all the
\* sequence lines between that header and the next header or the end of the
\* file, the record at the end of the file included, and has no other key.
C25_FastaRecords ==
    Parsed_fa
    => LET lines == TwoBitToFa(exon_precursor, exon_seqs)
       IN  /\ DOMAIN exons_seqs_dict
                 = {lines[h].text : h \in {g \in DOMAIN lines : lines[g].header}}
           /\ \A h \in LastHeaders(lines) :
                 exons_seqs_dict[lines[h].text] = SequenceFrom(lines, h + 1)

\* the part of C25 that holds: the keys, and the values without the last line
\* of the file
C25_FastaRecordsButLastLine ==
    Parsed_fa
    => LET lines == TwoBitToFa(exon_precursor, exon_seqs)
           front == SubSeq(lines, 1, Len(lines) - 1)
       IN  /\ DOMAIN exons_seqs_dict
                 = {lines[h].text : h \in {g \in DOMAIN lines : lines[g].header}}
           /\ \A h \in LastHeaders(lines) :
                 exons_seqs_dict[lines[h].text] = SequenceFrom(front, h + 1)

=============================================================================
